---- MODULE Spec2Model ----
(***************************************************************************)
(* Schedule 1 mixing calculator: the Mixer state-transition engine, the     *)
(* single-target Optimizer and the MultiProductOptimizer.                   *)
(*                                                                         *)
(* Units.  The catalog stores multipliers with two decimals and addiction   *)
(* values with three; the model keeps them as integers: multiplier in       *)
(* hundredths, addiction in thousandths.  Ingredient costs, budgets and     *)
(* totalCost are whole dollars as in the source.  currentValue, sellPrice   *)
(* and every profit are in cents: basePrice * (100 + sum of multipliers),   *)
(* minus 100 * cost.  Money arithmetic is exact: the rounding errors of the *)
(* JavaScript doubles in values and profits (below 1e-12) are not          *)
(* modelled.  totalAddiction is computed on doubles as the program does,   *)
(* because Math.round makes their rounding errors visible.                 *)
(***************************************************************************)
EXTENDS Integers, Sequences, FiniteSets, TLC

(* ------------------------------ data/effects.ts ------------------------ *)

\* Object.keys(EFFECTS): declaration order, which is also the order of
\* Array.prototype.sort() on the names (the names are declared sorted).
getAllEffects ==
  <<
    "Anti-Gravity", "Athletic", "Balding", "Bright-Eyed",
    "Calming", "Calorie-Dense", "Cyclopean", "Disorienting",
    "Electrifying", "Energizing", "Euphoric", "Explosive",
    "Focused", "Foggy", "Gingeritis", "Glowing",
    "Jennerising", "Laxative", "Long Faced", "Munchies",
    "Paranoia", "Refreshing", "Schizophrenia", "Sedating",
    "Seizure-Inducing", "Shrinking", "Slippery", "Smelly",
    "Sneaky", "Spicy", "Thought-Provoking", "Toxic",
    "Tropic Thunder", "Zombifying"
  >>

EFFECTS ==
  "Anti-Gravity" :> [name |-> "Anti-Gravity", multiplier |-> 54, addiction |-> 611] @@
  "Athletic" :> [name |-> "Athletic", multiplier |-> 32, addiction |-> 607] @@
  "Balding" :> [name |-> "Balding", multiplier |-> 30, addiction |-> 0] @@
  "Bright-Eyed" :> [name |-> "Bright-Eyed", multiplier |-> 40, addiction |-> 200] @@
  "Calming" :> [name |-> "Calming", multiplier |-> 10, addiction |-> 0] @@
  "Calorie-Dense" :> [name |-> "Calorie-Dense", multiplier |-> 28, addiction |-> 100] @@
  "Cyclopean" :> [name |-> "Cyclopean", multiplier |-> 56, addiction |-> 100] @@
  "Disorienting" :> [name |-> "Disorienting", multiplier |-> 0, addiction |-> 0] @@
  "Electrifying" :> [name |-> "Electrifying", multiplier |-> 50, addiction |-> 235] @@
  "Energizing" :> [name |-> "Energizing", multiplier |-> 22, addiction |-> 340] @@
  "Euphoric" :> [name |-> "Euphoric", multiplier |-> 18, addiction |-> 235] @@
  "Explosive" :> [name |-> "Explosive", multiplier |-> 0, addiction |-> 0] @@
  "Focused" :> [name |-> "Focused", multiplier |-> 16, addiction |-> 104] @@
  "Foggy" :> [name |-> "Foggy", multiplier |-> 36, addiction |-> 100] @@
  "Gingeritis" :> [name |-> "Gingeritis", multiplier |-> 20, addiction |-> 0] @@
  "Glowing" :> [name |-> "Glowing", multiplier |-> 48, addiction |-> 472] @@
  "Jennerising" :> [name |-> "Jennerising", multiplier |-> 42, addiction |-> 343] @@
  "Laxative" :> [name |-> "Laxative", multiplier |-> 0, addiction |-> 100] @@
  "Long Faced" :> [name |-> "Long Faced", multiplier |-> 52, addiction |-> 607] @@
  "Munchies" :> [name |-> "Munchies", multiplier |-> 12, addiction |-> 96] @@
  "Paranoia" :> [name |-> "Paranoia", multiplier |-> 0, addiction |-> 0] @@
  "Refreshing" :> [name |-> "Refreshing", multiplier |-> 14, addiction |-> 104] @@
  "Schizophrenia" :> [name |-> "Schizophrenia", multiplier |-> 0, addiction |-> 0] @@
  "Sedating" :> [name |-> "Sedating", multiplier |-> 26, addiction |-> 0] @@
  "Seizure-Inducing" :> [name |-> "Seizure-Inducing", multiplier |-> 0, addiction |-> 0] @@
  "Shrinking" :> [name |-> "Shrinking", multiplier |-> 60, addiction |-> 336] @@
  "Slippery" :> [name |-> "Slippery", multiplier |-> 34, addiction |-> 309] @@
  "Smelly" :> [name |-> "Smelly", multiplier |-> 0, addiction |-> 0] @@
  "Sneaky" :> [name |-> "Sneaky", multiplier |-> 24, addiction |-> 327] @@
  "Spicy" :> [name |-> "Spicy", multiplier |-> 38, addiction |-> 665] @@
  "Thought-Provoking" :> [name |-> "Thought-Provoking", multiplier |-> 44, addiction |-> 370] @@
  "Toxic" :> [name |-> "Toxic", multiplier |-> 0, addiction |-> 0] @@
  "Tropic Thunder" :> [name |-> "Tropic Thunder", multiplier |-> 46, addiction |-> 803] @@
  "Zombifying" :> [name |-> "Zombifying", multiplier |-> 58, addiction |-> 598]

(* ---------------------------- data/ingredients.ts ---------------------- *)

Rule(c, r) == [condition |-> c, replacement |-> r]

INGREDIENTS ==
  "Cuke" :> [name |-> "Cuke", cost |-> 2, defaultEffect |-> "Energizing",
     transformationRules |-> <<
       Rule("Euphoric", "Laxative"),
       Rule("Foggy", "Cyclopean"),
       Rule("Gingeritis", "Thought-Provoking"),
       Rule("Munchies", "Athletic"),
       Rule("Slippery", "Munchies"),
       Rule("Sneaky", "Paranoia"),
       Rule("Toxic", "Euphoric") >>] @@
  "Flu Medicine" :> [name |-> "Flu Medicine", cost |-> 5, defaultEffect |-> "Sedating",
     transformationRules |-> <<
       Rule("Athletic", "Munchies"),
       Rule("Calming", "Bright-Eyed"),
       Rule("Cyclopean", "Foggy"),
       Rule("Electrifying", "Refreshing"),
       Rule("Euphoric", "Toxic"),
       Rule("Focused", "Calming"),
       Rule("Laxative", "Euphoric"),
       Rule("Munchies", "Slippery"),
       Rule("Shrinking", "Paranoia"),
       Rule("Thought-Provoking", "Gingeritis") >>] @@
  "Gasoline" :> [name |-> "Gasoline", cost |-> 5, defaultEffect |-> "Toxic",
     transformationRules |-> <<
       Rule("Disorienting", "Glowing"),
       Rule("Electrifying", "Disorienting"),
       Rule("Energizing", "Euphoric"),
       Rule("Euphoric", "Spicy"),
       Rule("Gingeritis", "Smelly"),
       Rule("Jennerising", "Sneaky"),
       Rule("Laxative", "Foggy"),
       Rule("Munchies", "Sedating"),
       Rule("Paranoia", "Calming"),
       Rule("Shrinking", "Focused"),
       Rule("Sneaky", "Tropic Thunder") >>] @@
  "Donut" :> [name |-> "Donut", cost |-> 3, defaultEffect |-> "Calorie-Dense",
     transformationRules |-> <<
       Rule("Anti-Gravity", "Slippery"),
       Rule("Balding", "Sneaky"),
       Rule("Calorie-Dense", "Explosive"),
       Rule("Focused", "Euphoric"),
       Rule("Jennerising", "Gingeritis"),
       Rule("Munchies", "Calming"),
       Rule("Shrinking", "Energizing") >>] @@
  "Energy Drink" :> [name |-> "Energy Drink", cost |-> 6, defaultEffect |-> "Athletic",
     transformationRules |-> <<
       Rule("Disorienting", "Electrifying"),
       Rule("Euphoric", "Energizing"),
       Rule("Focused", "Shrinking"),
       Rule("Foggy", "Laxative"),
       Rule("Glowing", "Disorienting"),
       Rule("Schizophrenia", "Balding"),
       Rule("Sedating", "Munchies"),
       Rule("Spicy", "Euphoric"),
       Rule("Tropic Thunder", "Sneaky") >>] @@
  "Mouth Wash" :> [name |-> "Mouth Wash", cost |-> 4, defaultEffect |-> "Balding",
     transformationRules |-> <<
       Rule("Calming", "Anti-Gravity"),
       Rule("Calorie-Dense", "Sneaky"),
       Rule("Explosive", "Sedating"),
       Rule("Focused", "Jennerising") >>] @@
  "Motor Oil" :> [name |-> "Motor Oil", cost |-> 6, defaultEffect |-> "Slippery",
     transformationRules |-> <<
       Rule("Energizing", "Munchies"),
       Rule("Euphoric", "Sedating"),
       Rule("Foggy", "Toxic"),
       Rule("Munchies", "Schizophrenia"),
       Rule("Paranoia", "Anti-Gravity") >>] @@
  "Banana" :> [name |-> "Banana", cost |-> 2, defaultEffect |-> "Gingeritis",
     transformationRules |-> <<
       Rule("Calming", "Sneaky"),
       Rule("Cyclopean", "Energizing"),
       Rule("Disorienting", "Focused"),
       Rule("Energizing", "Thought-Provoking"),
       Rule("Focused", "Seizure-Inducing"),
       Rule("Long Faced", "Refreshing"),
       Rule("Paranoia", "Jennerising"),
       Rule("Smelly", "Anti-Gravity"),
       Rule("Toxic", "Smelly") >>] @@
  "Chili" :> [name |-> "Chili", cost |-> 7, defaultEffect |-> "Spicy",
     transformationRules |-> <<
       Rule("Anti-Gravity", "Tropic Thunder"),
       Rule("Athletic", "Euphoric"),
       Rule("Laxative", "Long Faced"),
       Rule("Munchies", "Toxic"),
       Rule("Shrinking", "Refreshing"),
       Rule("Sneaky", "Bright-Eyed") >>] @@
  "Iodine" :> [name |-> "Iodine", cost |-> 8, defaultEffect |-> "Jennerising",
     transformationRules |-> <<
       Rule("Calming", "Balding"),
       Rule("Calorie-Dense", "Gingeritis"),
       Rule("Euphoric", "Seizure-Inducing"),
       Rule("Foggy", "Paranoia"),
       Rule("Refreshing", "Thought-Provoking"),
       Rule("Toxic", "Sneaky") >>] @@
  "Paracetamol" :> [name |-> "Paracetamol", cost |-> 3, defaultEffect |-> "Sneaky",
     transformationRules |-> <<
       Rule("Calming", "Slippery"),
       Rule("Electrifying", "Athletic"),
       Rule("Energizing", "Paranoia"),
       Rule("Focused", "Gingeritis"),
       Rule("Foggy", "Calming"),
       Rule("Glowing", "Toxic"),
       Rule("Munchies", "Anti-Gravity"),
       Rule("Paranoia", "Balding"),
       Rule("Spicy", "Bright-Eyed"),
       Rule("Toxic", "Tropic Thunder") >>] @@
  "Viagra" :> [name |-> "Viagra", cost |-> 4, defaultEffect |-> "Tropic Thunder",
     transformationRules |-> <<
       Rule("Athletic", "Sneaky"),
       Rule("Disorienting", "Toxic"),
       Rule("Euphoric", "Bright-Eyed"),
       Rule("Laxative", "Calming"),
       Rule("Shrinking", "Gingeritis") >>] @@
  "Horse Semen" :> [name |-> "Horse Semen", cost |-> 9, defaultEffect |-> "Long Faced",
     transformationRules |-> <<
       Rule("Anti-Gravity", "Calming"),
       Rule("Gingeritis", "Refreshing"),
       Rule("Seizure-Inducing", "Energizing"),
       Rule("Thought-Provoking", "Electrifying") >>] @@
  "Mega Bean" :> [name |-> "Mega Bean", cost |-> 7, defaultEffect |-> "Foggy",
     transformationRules |-> <<
       Rule("Athletic", "Laxative"),
       Rule("Calming", "Glowing"),
       Rule("Energizing", "Cyclopean"),
       Rule("Focused", "Disorienting"),
       Rule("Jennerising", "Paranoia"),
       Rule("Seizure-Inducing", "Focused"),
       Rule("Shrinking", "Electrifying"),
       Rule("Slippery", "Toxic"),
       Rule("Sneaky", "Calming"),
       Rule("Thought-Provoking", "Energizing") >>] @@
  "Addy" :> [name |-> "Addy", cost |-> 9, defaultEffect |-> "Thought-Provoking",
     transformationRules |-> <<
       Rule("Explosive", "Euphoric"),
       Rule("Foggy", "Energizing"),
       Rule("Glowing", "Refreshing"),
       Rule("Long Faced", "Electrifying"),
       Rule("Sedating", "Gingeritis") >>] @@
  "Battery" :> [name |-> "Battery", cost |-> 8, defaultEffect |-> "Bright-Eyed",
     transformationRules |-> <<
       Rule("Cyclopean", "Glowing"),
       Rule("Electrifying", "Euphoric"),
       Rule("Euphoric", "Zombifying"),
       Rule("Laxative", "Calorie-Dense"),
       Rule("Munchies", "Tropic Thunder"),
       Rule("Shrinking", "Munchies") >>]

\* Object.keys(INGREDIENTS): declaration order.
getAllIngredients ==
  <<
    "Cuke", "Flu Medicine", "Gasoline", "Donut",
    "Energy Drink", "Mouth Wash", "Motor Oil", "Banana",
    "Chili", "Iodine", "Paracetamol", "Viagra",
    "Horse Semen", "Mega Bean", "Addy", "Battery"
  >>

(* ---------------------------- data/substances.ts ----------------------- *)

SUBSTANCES ==
  "OG Kush" :> [name |-> "OG Kush", basePrice |-> 35, initialEffects |-> <<"Calming">>] @@
  "Sour Diesel" :> [name |-> "Sour Diesel", basePrice |-> 35, initialEffects |-> <<"Refreshing">>] @@
  "Green Crack" :> [name |-> "Green Crack", basePrice |-> 35, initialEffects |-> <<"Focused">>] @@
  "Grandaddy Purple" :> [name |-> "Grandaddy Purple", basePrice |-> 35, initialEffects |-> <<"Sedating">>] @@
  "Meth" :> [name |-> "Meth", basePrice |-> 70, initialEffects |-> <<>>] @@
  "Cocaine" :> [name |-> "Cocaine", basePrice |-> 150, initialEffects |-> <<>>]

getAllSubstances ==
  <<
    "OG Kush", "Sour Diesel", "Green Crack",
    "Grandaddy Purple", "Meth", "Cocaine"
  >>

(* ------------------------------ data lookups --------------------------- *)

\* getEffect / getIngredient / getSubstance index a Record and yield
\* undefined for a key that is absent; has* is the test for "not undefined".
hasEffect(name) == name \in DOMAIN EFFECTS

getEffect(name) == EFFECTS[name]

hasIngredient(name) == name \in DOMAIN INGREDIENTS

getIngredient(name) == INGREDIENTS[name]

hasSubstance(name) == name \in DOMAIN SUBSTANCES

getSubstance(name) == SUBSTANCES[name]

(* --------------------- JavaScript Set<EffectName> ---------------------- *)
\* A Set iterates in insertion order: it is modelled as a sequence without
\* repetitions.  delete() removes the element, add() appends an absent one.

SetHas(s, e) == \E k \in 1..Len(s) : s[k] = e

SetDelete(s, e) == SelectSeq(s, LAMBDA x : x # e)

SetAdd(s, e) == IF SetHas(s, e) THEN s ELSE Append(s, e)

RECURSIVE NewSetFrom(_, _)
NewSetFrom(arr, k) ==
  IF k = 0 THEN <<>> ELSE SetAdd(NewSetFrom(arr, k - 1), arr[k])

NewSet(arr) == NewSetFrom(arr, Len(arr))

Elems(s) == {s[k] : k \in 1..Len(s)}

(* ------------------------------ engine/mixer.ts ------------------------ *)

MAX_EFFECTS == 8

\* A thrown Error is the value [error |-> message].
Throw(msg) == [error |-> msg]

IsError(v) == "error" \in DOMAIN v

RECURSIVE SumMultiplier(_, _)
SumMultiplier(effects, k) ==
  IF k = 0 THEN 0
  ELSE SumMultiplier(effects, k - 1)
       + (IF hasEffect(effects[k]) THEN getEffect(effects[k]).multiplier ELSE 0)

\* basePrice * (1 + totalMultiplier), in cents.
calculateValueFromEffects(basePrice, effects) ==
  basePrice * (100 + SumMultiplier(effects, Len(effects)))

Min(a, b) == IF a <= b THEN a ELSE b

(* JavaScript numbers are IEEE-754 doubles.  The addiction values are not
   multiples of a power of two, so their sum carries rounding errors, and
   Math.round turns such an error into a different integer when the exact
   sum lies halfway between two integers.  A double d with 0 <= d < 1024 that
   is a multiple of 2^-56 is the triple <<h, m, l>> with
   d = (h * 2^40 + m * 2^20 + l) * 2^-56 and m, l < 2^20. *)
Limb == 2^20

\* The triple of h * 2^40 + m * 2^20 + l with the carries propagated.
Carry(h, m, l) ==
  <<h + (m + l \div Limb) \div Limb, (m + l \div Limb) % Limb, l % Limb>>

\* The spacing of the doubles around h * 2^40 * 2^-56, in units of 2^-56:
\* a double has 53 significant bits, so below 2^53 units it is 1 and it
\* doubles with every further bit of h, which has 13 bits at 2^53.
RECURSIVE UlpFrom(_, _, _)
UlpFrom(h, bound, q) == IF h < bound THEN q ELSE UlpFrom(h, 2 * bound, 2 * q)

Ulp(h) == UlpFrom(h, 8192, 1)

\* The double nearest to (x + num / den) * 2^-56 where x is a multiple of q,
\* the spacing there, and 0 <= num / den < q; a tie goes to the even double.
RoundTo(x, q, num, den) ==
  Carry(x[1], x[2],
        x[3] + IF 2 * num > q * den \/ (2 * num = q * den /\ ((x[3] \div q) % 2) = 1)
               THEN q ELSE 0)

\* The rounding to a double of x, q being the spacing of the doubles there.
RoundWith(x, q) == RoundTo(<<x[1], x[2], x[3] - (x[3] % q)>>, q, x[3] % q, 1)

\* The rounding to a double of the exact sum or product x.
RoundToDouble(x) == RoundWith(x, Ulp(x[1]))

\* a + b on doubles.
DoubleAdd(a, b) == RoundToDouble(Carry(a[1] + b[1], a[2] + b[2], a[3] + b[3]))

\* a * 100 on doubles.
DoubleTimes100(a) == RoundToDouble(Carry(100 * a[1], 100 * a[2], 100 * a[3]))

\* Math.round: the nearest integer, a tie goes up; 2^56 units are 1, so
\* h counts 2^-16.
MathRound(a) == (a[1] \div 65536) + (IF (a[1] % 65536) >= 32768 THEN 1 ELSE 0)

\* The long division of k * 2^56 by 1000 = k * 8192 * 2^40 by 125, limb by
\* limb: quotient triple and remainder.
DivideBy125(h0) ==
  [quotient |-> <<h0 \div 125,
                  ((h0 % 125) * Limb) \div 125,
                  ((((h0 % 125) * Limb) % 125) * Limb) \div 125>>,
   remainder |-> ((((h0 % 125) * Limb) % 125) * Limb) % 125]

\* The rounding of a quotient and remainder of DivideBy125 to a double.
RoundQuotient(d, q) ==
  RoundTo(<<d.quotient[1], d.quotient[2], d.quotient[3] - (d.quotient[3] % q)>>,
          q, (d.quotient[3] % q) * 125 + d.remainder, 125)

\* The double a literal with three decimals denotes, k its thousandths
\* (addiction: 0.235 is k = 235): the double nearest to k / 1000.
DoubleOfLiteral(k) ==
  RoundQuotient(DivideBy125(k * 8192), Ulp((k * 8192) \div 125))

\* effect.addiction as the double the program holds, for every effect.
AddictionDouble ==
  [name \in DOMAIN EFFECTS |-> DoubleOfLiteral(EFFECTS[name].addiction)]

\* totalAddiction after the forEach over the first k effects; an unknown
\* effect and an addiction of 0 add nothing.
RECURSIVE SumAddiction(_, _)
SumAddiction(effects, k) ==
  IF k = 0 THEN <<0, 0, 0>>
  ELSE IF hasEffect(effects[k]) /\ getEffect(effects[k]).addiction # 0
  THEN DoubleAdd(SumAddiction(effects, k - 1), AddictionDouble[effects[k]])
  ELSE SumAddiction(effects, k - 1)

\* Math.min(100, Math.round(totalAddiction * 100))
calculateTotalAddiction(effects) ==
  Min(100, MathRound(DoubleTimes100(SumAddiction(effects, Len(effects)))))

\* The object createInitialState returns, from the values of its locals.
initialMixState(substanceName, effects, currentValue, totalAddiction) ==
  [baseSubstance |-> substanceName,
   effects |-> effects,
   ingredientsUsed |-> <<>>,
   totalCost |-> 0,
   currentValue |-> currentValue,
   profit |-> currentValue,
   totalAddiction |-> totalAddiction]

\* createInitialState from `effects` on.
createInitialStateFrom(substanceName, basePrice, effects) ==
  initialMixState(substanceName, effects,
                  calculateValueFromEffects(basePrice, effects),
                  calculateTotalAddiction(effects))

\* createInitialState from `substance` on.
createInitialStateOf(substanceName, substance) ==
  createInitialStateFrom(substanceName, substance.basePrice,
                         NewSet(substance.initialEffects))

createInitialState(substanceName) ==
  IF ~hasSubstance(substanceName)
  THEN Throw("Substance not found")
  ELSE createInitialStateOf(substanceName, getSubstance(substanceName))

\* calculateCurrentValue throws when the state's substance is not in the
\* catalog; otherwise it is the value of the state's effects.
calculateCurrentValueThrows(state) == ~hasSubstance(state.baseSubstance)

calculateCurrentValue(state) ==
  calculateValueFromEffects(getSubstance(state.baseSubstance).basePrice,
                            state.effects)

\* Faulty variant: every rule is tested against the set as it was before the first
\* rule (a frozen snapshot).
RECURSIVE applyTransformationRules_Snapshot(_, _, _)
applyTransformationRules_Snapshot(effects, rules, k) ==
  IF k = 0 THEN effects
  ELSE IF SetHas(effects, rules[k].condition)
  THEN SetAdd(SetDelete(applyTransformationRules_Snapshot(effects, rules, k - 1),
                        rules[k].condition),
              rules[k].replacement)
  ELSE applyTransformationRules_Snapshot(effects, rules, k - 1)

\* The body of the forEach callback: one rule applied to newEffects.
applyRule(newEffects, rule) ==
  IF SetHas(newEffects, rule.condition)
  THEN SetAdd(SetDelete(newEffects, rule.condition), rule.replacement)
  ELSE newEffects

\* transformationRules.forEach: rule k is tested against the set as rules
\* 1..k-1 left it.
RECURSIVE applyTransformationRules(_, _, _)
applyTransformationRules(effects, rules, k) ==
  IF k = 0 THEN effects
  ELSE applyRule(applyTransformationRules(effects, rules, k - 1), rules[k])

\* Faulty variant: the default effect is added without the size test.
addDefaultEffect_NoLimit(newEffects, defaultEffect) ==
  IF ~SetHas(newEffects, defaultEffect)
  THEN SetAdd(newEffects, defaultEffect)
  ELSE newEffects

addDefaultEffect(newEffects, defaultEffect) ==
  IF Len(newEffects) < MAX_EFFECTS /\ ~SetHas(newEffects, defaultEffect)
  THEN SetAdd(newEffects, defaultEffect)
  ELSE newEffects

\* The object applyIngredient returns; `spread` is the argument it built for
\* calculateCurrentValue, {...currentState, effects, totalCost,
\* totalAddiction}, which holds the new values of those fields.
newMixState(ingredientName, spread, newCurrentValue) ==
  [baseSubstance |-> spread.baseSubstance,
   effects |-> spread.effects,
   ingredientsUsed |-> Append(spread.ingredientsUsed, ingredientName),
   totalCost |-> spread.totalCost,
   currentValue |-> newCurrentValue,
   profit |-> newCurrentValue - 100 * spread.totalCost,
   totalAddiction |-> spread.totalAddiction]

\* applyIngredient from `newCurrentValue` on.
applyIngredientValue(ingredientName, spread) ==
  IF calculateCurrentValueThrows(spread)
  THEN Throw("Substance not found")
  ELSE newMixState(ingredientName, spread, calculateCurrentValue(spread))

\* applyIngredient from `newTotalCost` on.
applyIngredientEffects(currentState, ingredientName, ingredient, newEffects) ==
  applyIngredientValue(
    ingredientName,
    [currentState EXCEPT !.effects = newEffects,
                         !.totalCost = currentState.totalCost + ingredient.cost,
                         !.totalAddiction = calculateTotalAddiction(newEffects)])

\* applyIngredient from `newEffects` on.
applyIngredientOf(currentState, ingredientName, ingredient) ==
  applyIngredientEffects(
    currentState, ingredientName, ingredient,
    addDefaultEffect(
      applyTransformationRules(currentState.effects,
                               ingredient.transformationRules,
                               Len(ingredient.transformationRules)),
      ingredient.defaultEffect))

\* Faulty variant: an ingredient the catalog does not hold is recorded as
\* used and changes nothing else.
applyIngredient_KeepsUnknown(currentState, ingredientName) ==
  IF ~hasIngredient(ingredientName)
  THEN [currentState EXCEPT !.ingredientsUsed = Append(@, ingredientName)]
  ELSE applyIngredientOf(currentState, ingredientName,
                         getIngredient(ingredientName))

applyIngredient(currentState, ingredientName) ==
  IF ~hasIngredient(ingredientName)
  THEN Throw("Ingredient not found")
  ELSE applyIngredientOf(currentState, ingredientName,
                         getIngredient(ingredientName))

calculateProfit(state) == state.currentValue - 100 * state.totalCost

getEffectsArray(state) == state.effects

\* ingredients.forEach(ingredient => state = applyIngredient(state, ingredient))
\* up to the k-th ingredient; a throw ends the loop.
RECURSIVE applyEach(_, _, _)
applyEach(state, ingredients, k) ==
  IF k = 0 THEN state
  ELSE LET previous == applyEach(state, ingredients, k - 1)
       IN IF IsError(previous) THEN previous
          ELSE applyIngredient(previous, ingredients[k])

applySequence(substanceName, ingredients) ==
  LET state == createInitialState(substanceName)
  IN IF IsError(state) THEN state
     ELSE applyEach(state, ingredients, Len(ingredients))

(* ------------------ engine/mixer.ts on a heap of objects --------------- *)
\* Objects have identity.  A heap is the sequence of the objects allocated
\* so far and a reference is an index into it.  A Set and an Array keep
\* their elements in `items`; a MixState object keeps references to its
\* effects Set and its ingredientsUsed Array.  The method bodies are those
\* modelled above, with every `new Set`, array literal and object literal
\* an allocation and every delete() / add() a write to the heap.

\* An allocation: the heap with the object appended and the reference to it.
Alloc(heap, object) == [heap |-> Append(heap, object), ref |-> Len(heap) + 1]

SetObject(items) == [kind |-> "Set", items |-> items]

ArrayObject(items) == [kind |-> "Array", items |-> items]

\* A write to the elements of the Set at ref.
Store(heap, ref, items) == [heap EXCEPT ![ref].items = items]

\* A method's return of the object just allocated, and a method's throw.
Returned(a) == [heap |-> a.heap, outcome |-> [ref |-> a.ref]]

Thrown(heap, msg) == [heap |-> heap, outcome |-> Throw(msg)]

\* The MixState value held by the object at ref: the references replaced by
\* the elements of the Set and of the Array they point to.
MixStateAt(heap, ref) ==
  [baseSubstance |-> heap[ref].baseSubstance,
   effects |-> heap[heap[ref].effects].items,
   ingredientsUsed |-> heap[heap[ref].ingredientsUsed].items,
   totalCost |-> heap[ref].totalCost,
   currentValue |-> heap[ref].currentValue,
   profit |-> heap[ref].profit,
   totalAddiction |-> heap[ref].totalAddiction]

\* createInitialState's return statement, a being the allocation of
\* `ingredientsUsed: []` and effects the reference to the new Set.
Mixer_initialState(a, substanceName, effects, currentValue) ==
  Returned(Alloc(a.heap,
                 [kind |-> "MixState",
                  baseSubstance |-> substanceName,
                  effects |-> effects,
                  ingredientsUsed |-> a.ref,
                  totalCost |-> 0,
                  currentValue |-> currentValue,
                  profit |-> currentValue,
                  totalAddiction |-> calculateTotalAddiction(a.heap[effects].items)]))

\* createInitialState from `currentValue` on, a being the allocation of
\* `new Set(substance.initialEffects)`.
Mixer_createFromEffects(a, substanceName, substance) ==
  Mixer_initialState(Alloc(a.heap, ArrayObject(<<>>)), substanceName, a.ref,
                     calculateValueFromEffects(substance.basePrice,
                                               a.heap[a.ref].items))

Mixer_createInitialState(heap, substanceName) ==
  IF ~hasSubstance(substanceName)
  THEN Thrown(heap, "Substance not found")
  ELSE Mixer_createFromEffects(
         Alloc(heap, SetObject(NewSet(getSubstance(substanceName).initialEffects))),
         substanceName, getSubstance(substanceName))

\* Faulty variant: newEffects is the Set of the current state itself, not a
\* copy of it.
newSetCopy_Alias(heap, source) == [heap |-> heap, ref |-> source]

\* new Set(currentState.effects)
newSetCopy(heap, source) == Alloc(heap, SetObject(heap[source].items))

\* The body of the forEach callback on the Set at newEffects.
StoreRule(heap, newEffects, rule) ==
  Store(heap, newEffects, applyRule(heap[newEffects].items, rule))

\* The forEach over the rules up to rule k: has / delete / add on the Set at
\* newEffects.
RECURSIVE StoreRules(_, _, _, _)
StoreRules(heap, newEffects, rules, k) ==
  IF k = 0 THEN heap
  ELSE StoreRule(StoreRules(heap, newEffects, rules, k - 1), newEffects, rules[k])

\* The `if (size < MAX_EFFECTS && !has(defaultEffect)) add(defaultEffect)`.
StoreDefaultEffect(heap, newEffects, defaultEffect) ==
  Store(heap, newEffects, addDefaultEffect(heap[newEffects].items, defaultEffect))

\* applyIngredient's return statement, a being the allocation of
\* [...currentState.ingredientsUsed, ingredientName] and spread the argument
\* object built for calculateCurrentValue, which holds newEffects,
\* newTotalCost and newTotalAddiction.
Mixer_newState(a, spread, newCurrentValue) ==
  Returned(Alloc(a.heap,
                 [kind |-> "MixState",
                  baseSubstance |-> spread.baseSubstance,
                  effects |-> spread.effects,
                  ingredientsUsed |-> a.ref,
                  totalCost |-> spread.totalCost,
                  currentValue |-> newCurrentValue,
                  profit |-> newCurrentValue - 100 * spread.totalCost,
                  totalAddiction |-> spread.totalAddiction]))

\* applyIngredient from the call of calculateCurrentValue on, s being the
\* allocation of its argument {...currentState, effects, totalCost,
\* totalAddiction}.
Mixer_applyValue(s, currentState, ingredientName) ==
  IF ~hasSubstance(s.heap[s.ref].baseSubstance)
  THEN Thrown(s.heap, "Substance not found")
  ELSE Mixer_newState(
         Alloc(s.heap,
               ArrayObject(Append(s.heap[s.heap[currentState].ingredientsUsed].items,
                                  ingredientName))),
         s.heap[s.ref],
         calculateValueFromEffects(
           getSubstance(s.heap[s.ref].baseSubstance).basePrice,
           s.heap[s.heap[s.ref].effects].items))

\* Faulty variant: the new total cost is the ingredient's cost alone.
Mixer_applyTotals_CostNotAdded(heap, newEffects, currentState, ingredientName, ingredient) ==
  Mixer_applyValue(
    Alloc(heap, [heap[currentState] EXCEPT
                   !.effects = newEffects,
                   !.totalCost = ingredient.cost,
                   !.totalAddiction = calculateTotalAddiction(heap[newEffects].items)]),
    currentState, ingredientName)

\* applyIngredient from `newTotalCost` on, heap holding the Set at
\* newEffects as the rules and the default effect left it.
Mixer_applyTotals(heap, newEffects, currentState, ingredientName, ingredient) ==
  Mixer_applyValue(
    Alloc(heap, [heap[currentState] EXCEPT
                   !.effects = newEffects,
                   !.totalCost = heap[currentState].totalCost + ingredient.cost,
                   !.totalAddiction = calculateTotalAddiction(heap[newEffects].items)]),
    currentState, ingredientName)

\* applyIngredient from the rules on, a being the allocation of newEffects.
Mixer_applyToCopy(a, currentState, ingredientName, ingredient) ==
  Mixer_applyTotals(
    StoreDefaultEffect(
      StoreRules(a.heap, a.ref, ingredient.transformationRules,
                 Len(ingredient.transformationRules)),
      a.ref, ingredient.defaultEffect),
    a.ref, currentState, ingredientName, ingredient)

Mixer_applyIngredient(heap, currentState, ingredientName) ==
  IF ~hasIngredient(ingredientName)
  THEN Thrown(heap, "Ingredient not found")
  ELSE Mixer_applyToCopy(newSetCopy(heap, heap[currentState].effects),
                         currentState, ingredientName,
                         getIngredient(ingredientName))

(* -------------------------- JavaScript helpers ------------------------- *)

\* null / undefined
Null == [null |-> TRUE]

\* An optional number (budgetLimit?, minAddictionLevel?) or array
\* (availableIngredients?) is <<>> when absent and <<v>> when given.
Absent == <<>>

Some(v) == <<v>>

\* `x && ...` on an optional number: undefined and 0 are falsy.
TruthyNumber(x) == x # Absent /\ x[1] # 0

\* Faulty variant: the list passed in is ignored.
OrElse_Default(x, dflt) == dflt

\* `x || dflt` on an optional array: every array, [] included, is truthy.
OrElse(x, dflt) == IF x # Absent THEN x[1] ELSE dflt

\* Array.prototype.sort(compare) with a comparator that is the difference of
\* two numeric keys, compare(x, y) = key(x) - key(y).  The sort is stable:
\* an element goes behind every element of the sorted prefix whose key is
\* not greater.  SortOrder yields the indices of the array in sorted order.
InsertSorted(order, k, keys) ==
  LET p == Cardinality({j \in 1..Len(order) : keys[order[j]] <= keys[k]})
  IN SubSeq(order, 1, p) \o <<k>> \o SubSeq(order, p + 1, Len(order))

\* The sorted prefix `order` is extended until it holds every index.
RECURSIVE SortOrder(_, _)
SortOrder(order, keys) ==
  IF Len(order) = Len(keys) THEN order
  ELSE SortOrder(InsertSorted(order, Len(order) + 1, keys), keys)

SortByKey(arr, keys) ==
  LET order == SortOrder(<<>>, keys)
  IN [k \in 1..Len(arr) |-> arr[order[k]]]

\* arr.slice(0, n)
Slice(arr, n) == SubSeq(arr, 1, Min(n, Len(arr)))

RECURSIVE SumSeq(_, _)
SumSeq(arr, k) == IF k = 0 THEN 0 ELSE SumSeq(arr, k - 1) + arr[k]

(* --------------------- data/effects.ts (continued) --------------------- *)

\* Object.values(EFFECTS).sort((a, b) => b.multiplier - a.multiplier)
EffectsByMultiplier ==
  SortByKey([k \in 1..Len(getAllEffects) |-> EFFECTS[getAllEffects[k]]],
            [k \in 1..Len(getAllEffects) |-> 0 - EFFECTS[getAllEffects[k]].multiplier])

getHighestValueEffects(count) == Slice(EffectsByMultiplier, count)

(* ------------------------ optimization/optimizer.ts -------------------- *)

\* Array.from(effects).sort().join("|").  The names carry no "|", so the
\* joined string and the sorted array determine each other; the key is kept
\* as the sorted array.  The catalog declares the names in sort() order.
getStateKey(effects) == SelectSeq(getAllEffects, LAMBDA e : SetHas(effects, e))

getIngredientCost(ingredientName) ==
  IF hasIngredient(ingredientName) THEN getIngredient(ingredientName).cost ELSE 0

getBasePrice(substanceName) ==
  IF hasSubstance(substanceName) THEN getSubstance(substanceName).basePrice ELSE 35

getCurrentMultiplier(state) == SumMultiplier(state.effects, Len(state.effects))

RECURSIVE SumAbsentMultipliers(_, _, _)
SumAbsentMultipliers(highestEffects, effects, k) ==
  IF k = 0 THEN 0
  ELSE SumAbsentMultipliers(highestEffects, effects, k - 1)
       + (IF ~SetHas(effects, highestEffects[k].name)
          THEN highestEffects[k].multiplier ELSE 0)

\* highestEffects.forEach(effect => if (!effects.has(effect.name)) ... +=)
optimisticMultiplierOf(highestEffects, effects) ==
  SumAbsentMultipliers(highestEffects, effects, Len(highestEffects))

\* costs.sort((a, b) => a - b)
SortNumbers(costs) == SortByKey(costs, costs)

\* cheapestCosts.reduce((sum, cost) => sum + cost, 0)
Sum(arr) == SumSeq(arr, Len(arr))

\* availableIngredients.map(cost).sort((a, b) => a - b).slice(0, n), summed
minAdditionalCost(availableIngredients, stepsRemaining) ==
  Sum(Slice(SortNumbers([k \in 1..Len(availableIngredients) |->
                          getIngredientCost(availableIngredients[k])]),
            stepsRemaining))

estimateMaxProfit(state, stepsRemaining, availableIngredients) ==
  IF stepsRemaining = 0 THEN calculateProfit(state)
  ELSE getBasePrice(state.baseSubstance)
         * (100 + getCurrentMultiplier(state)
                + optimisticMultiplierOf(getHighestValueEffects(stepsRemaining),
                                         state.effects))
       - 100 * (state.totalCost
                + minAdditionalCost(availableIngredients, stepsRemaining))

\* profit / currentValue * 100, or 0, as the exact fraction num / den.
Margin(profit, value) ==
  IF value > 0 THEN [num |-> profit * 100, den |-> value]
  ELSE [num |-> 0, den |-> 1]

\* The object createResult returns, profit being its local.
resultOf(state, sequence, profit) ==
  [mixState |-> state,
   sequence |-> sequence,
   finalEffects |-> getEffectsArray(state),
   totalCost |-> state.totalCost,
   sellPrice |-> state.currentValue,
   profit |-> profit,
   profitMargin |-> Margin(profit, state.currentValue),
   totalAddiction |-> state.totalAddiction]

createResult(state, sequence) ==
  resultOf(state, sequence, calculateProfit(state))

\* Faulty variant: the comparison is reversed, a result of lower profit
\* replaces the global best.
updateGlobalBest_Lower(self, result) ==
  IF self.globalBest = Null \/ result.profit < self.globalBest.profit
  THEN [self EXCEPT !.globalBest = result]
  ELSE self

\* The optimizer object `self` is [cache, globalBest]; a method that writes
\* a field returns the object with the field replaced.
updateGlobalBest(self, result) ==
  IF self.globalBest = Null \/ result.profit > self.globalBest.profit
  THEN [self EXCEPT !.globalBest = result]
  ELSE self

\* this.cache.set(stateKey, {result, stepsUsed})
cacheSet(self, stateKey, result, stepsUsed) ==
  [self EXCEPT !.cache =
     (stateKey :> [result |-> result, stepsUsed |-> stepsUsed]) @@ self.cache]

\* search returns [self, result]: the object after the call and the value
\* returned (an OptimizationResult or Null).
RECURSIVE search(_, _, _, _, _, _, _)
RECURSIVE searchIngredients(_, _, _, _, _, _, _, _)

\* The for-loop of search keeps `loop` = [self, bestResult]: the object and
\* the loop's local variable.

\* The end of an iteration, r being what the recursive call gave:
\* bestResult is replaced when r.result is a result of higher profit.
searchNext(r, bestResult) ==
  [self |-> r.self,
   bestResult |-> IF /\ r.result # Null
                     /\ (bestResult = Null
                           \/ r.result.profit > bestResult.profit)
                  THEN r.result
                  ELSE bestResult]

\* The try block of the loop body for `ingredient`, newState being what
\* applyIngredient returned or threw; the catch block goes on with the loop.
searchTry(loop, newState, ingredient, stepsRemaining, availableIngredients, budgetLimit, minAddictionLevel, currentSequence) ==
  IF IsError(newState)
  THEN loop
  ELSE searchNext(search(loop.self, newState, stepsRemaining - 1,
                         availableIngredients, budgetLimit, minAddictionLevel,
                         Append(currentSequence, ingredient)),
                  loop.bestResult)

\* One iteration of the for-loop, for `ingredient`: the budget test, then
\* the try block.
searchIteration(loop, ingredient, currentState, stepsRemaining, availableIngredients, budgetLimit, minAddictionLevel, currentSequence) ==
  IF /\ TruthyNumber(budgetLimit)
     /\ currentState.totalCost + getIngredientCost(ingredient) > budgetLimit[1]
  THEN loop
  ELSE searchTry(loop, applyIngredient(currentState, ingredient), ingredient,
                 stepsRemaining, availableIngredients, budgetLimit,
                 minAddictionLevel, currentSequence)

\* Faulty variant: the list is iterated from its last entry to its first.
searchIngredients_Backwards(loop, k, currentState, stepsRemaining, availableIngredients, budgetLimit, minAddictionLevel, currentSequence) ==
  IF k > Len(availableIngredients) \/ IsError(loop)
  THEN loop
  ELSE searchIngredients(
         searchIteration(loop,
                         availableIngredients[Len(availableIngredients) + 1 - k],
                         currentState, stepsRemaining, availableIngredients,
                         budgetLimit, minAddictionLevel, currentSequence),
         k + 1, currentState, stepsRemaining, availableIngredients,
         budgetLimit, minAddictionLevel, currentSequence)

\* The for-loop of search from its k-th iteration on, `loop` being what the
\* iterations before it left; yields `loop` at loop exit.  Nothing in the
\* loop body throws past its try block, so `loop` is never an Error; the
\* test for one has `loop` evaluated before the next iteration starts.
searchIngredients(loop, k, currentState, stepsRemaining, availableIngredients, budgetLimit, minAddictionLevel, currentSequence) ==
  IF k > Len(availableIngredients) \/ IsError(loop)
  THEN loop
  ELSE searchIngredients(
         searchIteration(loop, availableIngredients[k], currentState,
                         stepsRemaining, availableIngredients, budgetLimit,
                         minAddictionLevel, currentSequence),
         k + 1, currentState, stepsRemaining, availableIngredients,
         budgetLimit, minAddictionLevel, currentSequence)

\* The base case once the addiction test has passed: the result is created,
\* offered to globalBest, cached and returned.
searchLeaf(self, stateKey, result, stepsUsed) ==
  [self |-> cacheSet(updateGlobalBest(self, result), stateKey, result,
                     stepsUsed),
   result |-> result]

\* The end of search, loop being [self, bestResult] at loop exit: a best
\* result is cached and offered to globalBest.
searchReturn(loop, stateKey, stepsUsed) ==
  IF loop.bestResult # Null
  THEN [self |-> updateGlobalBest(
                   cacheSet(loop.self, stateKey, loop.bestResult, stepsUsed),
                   loop.bestResult),
        result |-> loop.bestResult]
  ELSE [self |-> loop.self, result |-> Null]

\* search from the cache test on.
searchFrom(self, stateKey, currentState, stepsRemaining, availableIngredients, budgetLimit, minAddictionLevel, currentSequence) ==
  IF /\ stateKey \in DOMAIN self.cache
     /\ self.cache[stateKey].stepsUsed <= Len(currentSequence)
  THEN [self |-> self, result |-> self.cache[stateKey].result]
  ELSE IF /\ self.globalBest # Null
          /\ estimateMaxProfit(currentState, stepsRemaining,
                               availableIngredients)
               <= self.globalBest.profit
  THEN [self |-> self, result |-> Null]
  ELSE IF stepsRemaining = 0
  THEN IF /\ TruthyNumber(minAddictionLevel)
          /\ currentState.totalAddiction < minAddictionLevel[1]
       THEN [self |-> self, result |-> Null]
       ELSE searchLeaf(self, stateKey,
                       createResult(currentState, currentSequence),
                       Len(currentSequence))
  ELSE searchReturn(searchIngredients([self |-> self, bestResult |-> Null],
                                      1, currentState, stepsRemaining,
                                      availableIngredients, budgetLimit,
                                      minAddictionLevel, currentSequence),
                    stateKey, Len(currentSequence))

search(self, currentState, stepsRemaining, availableIngredients, budgetLimit, minAddictionLevel, currentSequence) ==
  searchFrom(self, getStateKey(currentState.effects), currentState,
             stepsRemaining, availableIngredients, budgetLimit,
             minAddictionLevel, currentSequence)

\* `result || this.createResult(initialState, [])`, r being [self, result]
\* as search left them.
resultOrFallback(r, initialState) ==
  [self |-> r.self,
   result |-> IF r.result # Null THEN r.result
              ELSE createResult(initialState, <<>>)]

\* findOptimalMix from the zero-steps test on.
findOptimalMixFrom(self, options, availableIngredients, initialState) ==
  IF IsError(initialState)
  THEN [self |-> self, result |-> initialState]
  ELSE IF options.maxSteps = 0
  THEN [self |-> self, result |-> createResult(initialState, <<>>)]
  ELSE resultOrFallback(
         search(self, initialState, options.maxSteps, availableIngredients,
                options.budgetLimit, options.minAddictionLevel, <<>>),
         initialState)

\* findOptimalMix after its first two statements (cache.clear() and
\* globalBest = null, which left `self` empty): yields [self, result],
\* result being the returned OptimizationResult or the thrown Error.
findOptimalMix(self, options) ==
  findOptimalMixFrom(self, options,
                     OrElse(options.availableIngredients, getAllIngredients),
                     createInitialState(options.baseSubstance))

(* ------------------ optimization/multi-product-optimizer.ts ------------ *)
\* getIngredientCost, getBasePrice and getCurrentMultiplier of this class are
\* copies of the Optimizer's private helpers above.

\* Map<SubstanceName, MixState>: entries [key, value] in insertion order;
\* set() on a key already present replaces the value in place.
MapHas(map, key) == \E k \in 1..Len(map) : map[k].key = key

\* Faulty variant: set() appends an entry even when the key is present.
MapSet_Append(map, key, value) == Append(map, [key |-> key, value |-> value])

MapSet(map, key, value) ==
  IF MapHas(map, key)
  THEN [k \in 1..Len(map) |->
          IF map[k].key = key THEN [key |-> key, value |-> value] ELSE map[k]]
  ELSE Append(map, [key |-> key, value |-> value])

\* String order of the substance names, as Array.prototype.sort() sees it.
SubstanceSortOrder ==
  <<"Cocaine", "Grandaddy Purple", "Green Crack", "Meth", "OG Kush",
    "Sour Diesel">>

SubstanceRank(name) ==
  IF \E k \in 1..Len(SubstanceSortOrder) : SubstanceSortOrder[k] = name
  THEN CHOOSE k \in 1..Len(SubstanceSortOrder) : SubstanceSortOrder[k] = name
  ELSE 0

\* Faulty variant: the key names the substances and leaves their effects out.
getMultiSubstanceStateKey_NamesOnly(states) ==
  SortByKey([k \in 1..Len(states) |-> states[k].key],
            [k \in 1..Len(states) |-> SubstanceRank(states[k].key)])

\* `${substanceName}:${effectsKey}` per entry, then sort().join("|").  No
\* name holds ":", "," or "|" and no substance name is a prefix of another,
\* so the strings sort by substance name; the key is kept as the sorted
\* array of <<substanceName, sorted effects>>.
getMultiSubstanceStateKey(states) ==
  SortByKey([k \in 1..Len(states) |->
               <<states[k].key, getStateKey(states[k].value.effects)>>],
            [k \in 1..Len(states) |-> SubstanceRank(states[k].key)])

RECURSIVE SumCurrentValue(_, _)
SumCurrentValue(states, k) ==
  IF k = 0 THEN 0
  ELSE SumCurrentValue(states, k - 1) + states[k].value.currentValue

\* totalCost is overwritten by every state of the loop: the last one stays.
calculateCombinedProfit(states) ==
  SumCurrentValue(states, Len(states))
  - 100 * (IF Len(states) = 0 THEN 0 ELSE states[Len(states)].value.totalCost)

getTotalCost(states) ==
  IF Len(states) > 0 THEN states[1].value.totalCost ELSE 0

\* optimisticValue - state.totalCost of one iteration of the loop over the
\* states in estimateMaxCombinedProfit.
optimisticProfit(substanceName, state, stepsRemaining) ==
  getBasePrice(substanceName)
    * (100 + getCurrentMultiplier(state)
           + optimisticMultiplierOf(getHighestValueEffects(stepsRemaining),
                                    state.effects))
  - 100 * state.totalCost

RECURSIVE SumOptimisticProfit(_, _, _)
SumOptimisticProfit(states, stepsRemaining, k) ==
  IF k = 0 THEN 0
  ELSE SumOptimisticProfit(states, stepsRemaining, k - 1)
       + optimisticProfit(states[k].key, states[k].value, stepsRemaining)

estimateMaxCombinedProfit(states, stepsRemaining, availableIngredients) ==
  IF stepsRemaining = 0 THEN calculateCombinedProfit(states)
  ELSE SumOptimisticProfit(states, stepsRemaining, Len(states))
       - 100 * minAdditionalCost(availableIngredients, stepsRemaining)

\* The substanceResult pushed for one entry of the states.
substanceResult(substanceName, state, profit) ==
  [substance |-> substanceName,
   mixState |-> state,
   finalEffects |-> getEffectsArray(state),
   sellPrice |-> state.currentValue,
   profit |-> profit,
   profitMargin |-> Margin(profit, state.currentValue),
   totalAddiction |-> state.totalAddiction]

RECURSIVE SumSubstanceProfit(_, _)
SumSubstanceProfit(substanceResults, k) ==
  IF k = 0 THEN 0
  ELSE SumSubstanceProfit(substanceResults, k - 1) + substanceResults[k].profit

\* Faulty variant: totalProfit is the sum of the per-substance profits, each of
\* which already has the shared cost subtracted.
multiResultOf_SummedProfit(sequence, substanceResults, totalCost, totalSellPrice) ==
  [sequence |-> sequence,
   substanceResults |-> substanceResults,
   totalCost |-> totalCost,
   totalSellPrice |-> totalSellPrice,
   totalProfit |-> SumSubstanceProfit(substanceResults, Len(substanceResults)),
   averageProfitMargin |-> Margin(totalSellPrice - 100 * totalCost,
                                  totalSellPrice)]

\* The object createResult returns, from the values of its locals.
multiResultOf(sequence, substanceResults, totalCost, totalSellPrice) ==
  [sequence |-> sequence,
   substanceResults |-> substanceResults,
   totalCost |-> totalCost,
   totalSellPrice |-> totalSellPrice,
   totalProfit |-> totalSellPrice - 100 * totalCost,
   averageProfitMargin |-> Margin(totalSellPrice - 100 * totalCost,
                                  totalSellPrice)]

RECURSIVE SumTotalCost(_, _)
SumTotalCost(states, k) ==
  IF k = 0 THEN 0 ELSE SumTotalCost(states, k - 1) + states[k].value.totalCost

\* Faulty variant: totalCost adds up the cumulative cost of every tracked state,
\* so the shared sequence is paid once per substance.
MultiCreateResult_CostPerSubstance(states, sequence) ==
  multiResultOf(
    sequence,
    [k \in 1..Len(states) |->
       substanceResult(states[k].key, states[k].value,
                       calculateProfit(states[k].value))],
    IF Len(sequence) > 0 THEN SumTotalCost(states, Len(states)) ELSE 0,
    SumCurrentValue(states, Len(states)))

MultiCreateResult(states, sequence) ==
  multiResultOf(
    sequence,
    [k \in 1..Len(states) |->
       substanceResult(states[k].key, states[k].value,
                       calculateProfit(states[k].value))],
    IF Len(sequence) > 0 THEN getTotalCost(states) ELSE 0,
    SumCurrentValue(states, Len(states)))

MultiUpdateGlobalBest(self, result) ==
  IF self.globalBest = Null \/ result.totalProfit > self.globalBest.totalProfit
  THEN [self EXCEPT !.globalBest = result]
  ELSE self

\* newStates.set(substanceName, newState), or the Error applyIngredient
\* threw (on which the code sets validApplication = false and breaks).
setNewState(newStates, substanceName, newState) ==
  IF IsError(newState) THEN newState
  ELSE [map |-> MapSet(newStates.map, substanceName, newState)]

\* Faulty variant: the ingredient is applied to the first state only; the other
\* states enter the new map as they were.
applyToState_FirstOnly(newStates, substanceName, state, ingredient) ==
  IF IsError(newStates) THEN newStates
  ELSE IF Len(newStates.map) > 0
  THEN setNewState(newStates, substanceName, state)
  ELSE setNewState(newStates, substanceName, applyIngredient(state, ingredient))

\* One iteration of the inner loop, newStates being [map |-> ...] so far or
\* the Error that ended the loop.
applyToState(newStates, substanceName, state, ingredient) ==
  IF IsError(newStates) THEN newStates
  ELSE setNewState(newStates, substanceName, applyIngredient(state, ingredient))

\* The inner loop of the branch step: [map |-> newStates] after the first k
\* states, or the Error of the first application that throws.
RECURSIVE applyToStates(_, _, _)
applyToStates(currentStates, ingredient, k) ==
  IF k = 0 THEN [map |-> <<>>]
  ELSE applyToState(applyToStates(currentStates, ingredient, k - 1),
                    currentStates[k].key, currentStates[k].value, ingredient)

\* Faulty variant: a leaf is rejected only when every substance is below the level.
BelowMinAddiction_All(currentStates, minAddictionLevel) ==
  \A k \in 1..Len(currentStates) :
     currentStates[k].value.totalAddiction < minAddictionLevel

\* for (const state of currentStates.values()) if (... < minAddictionLevel)
BelowMinAddiction(currentStates, minAddictionLevel) ==
  \E k \in 1..Len(currentStates) :
     currentStates[k].value.totalAddiction < minAddictionLevel

RECURSIVE MultiSearch(_, _, _, _, _, _, _)
RECURSIVE MultiSearchIngredients(_, _, _, _, _, _, _, _)

\* The end of an iteration of the for-loop, r being what the recursive call
\* gave; `loop` is [self, bestResult] as in Optimizer.search.
MultiSearchNext(r, bestResult) ==
  [self |-> r.self,
   bestResult |-> IF /\ r.result # Null
                     /\ (bestResult = Null
                           \/ r.result.totalProfit > bestResult.totalProfit)
                  THEN r.result
                  ELSE bestResult]

\* The rest of the loop body for `ingredient`, newStates being what the
\* inner loop left: an Error stands for validApplication = false.
MultiSearchTry(loop, newStates, ingredient, stepsRemaining, availableIngredients, budgetLimit, minAddictionLevel, currentSequence) ==
  IF IsError(newStates)
  THEN loop
  ELSE MultiSearchNext(
         MultiSearch(loop.self, newStates.map, stepsRemaining - 1,
                     availableIngredients, budgetLimit, minAddictionLevel,
                     Append(currentSequence, ingredient)),
         loop.bestResult)

\* One iteration of the for-loop, for `ingredient`: the budget test, then
\* the inner loop over the tracked substances.
MultiSearchIteration(loop, ingredient, currentStates, stepsRemaining, availableIngredients, budgetLimit, minAddictionLevel, currentSequence) ==
  IF /\ TruthyNumber(budgetLimit)
     /\ getTotalCost(currentStates) + getIngredientCost(ingredient)
          > budgetLimit[1]
  THEN loop
  ELSE MultiSearchTry(loop,
                      applyToStates(currentStates, ingredient,
                                    Len(currentStates)),
                      ingredient, stepsRemaining, availableIngredients,
                      budgetLimit, minAddictionLevel, currentSequence)

\* The for-loop of search from its k-th iteration on; as in
\* Optimizer.search, `loop` is never an Error.
MultiSearchIngredients(loop, k, currentStates, stepsRemaining, availableIngredients, budgetLimit, minAddictionLevel, currentSequence) ==
  IF k > Len(availableIngredients) \/ IsError(loop)
  THEN loop
  ELSE MultiSearchIngredients(
         MultiSearchIteration(loop, availableIngredients[k], currentStates,
                              stepsRemaining, availableIngredients,
                              budgetLimit, minAddictionLevel, currentSequence),
         k + 1, currentStates, stepsRemaining, availableIngredients,
         budgetLimit, minAddictionLevel, currentSequence)

\* The base case once the addiction test has passed.
MultiSearchLeaf(self, stateKey, result, stepsUsed) ==
  [self |-> cacheSet(MultiUpdateGlobalBest(self, result), stateKey, result,
                     stepsUsed),
   result |-> result]

\* The end of search, loop being [self, bestResult] at loop exit.
MultiSearchReturn(loop, stateKey, stepsUsed) ==
  IF loop.bestResult # Null
  THEN [self |-> MultiUpdateGlobalBest(
                   cacheSet(loop.self, stateKey, loop.bestResult, stepsUsed),
                   loop.bestResult),
        result |-> loop.bestResult]
  ELSE [self |-> loop.self, result |-> Null]

\* search from the cache test on.
MultiSearchFrom(self, stateKey, currentStates, stepsRemaining, availableIngredients, budgetLimit, minAddictionLevel, currentSequence) ==
  IF /\ stateKey \in DOMAIN self.cache
     /\ self.cache[stateKey].stepsUsed <= Len(currentSequence)
  THEN [self |-> self, result |-> self.cache[stateKey].result]
  ELSE IF /\ self.globalBest # Null
          /\ estimateMaxCombinedProfit(currentStates, stepsRemaining,
                                       availableIngredients)
               <= self.globalBest.totalProfit
  THEN [self |-> self, result |-> Null]
  ELSE IF stepsRemaining = 0
  THEN IF /\ TruthyNumber(minAddictionLevel)
          /\ BelowMinAddiction(currentStates, minAddictionLevel[1])
       THEN [self |-> self, result |-> Null]
       ELSE MultiSearchLeaf(self, stateKey,
                            MultiCreateResult(currentStates, currentSequence),
                            Len(currentSequence))
  ELSE MultiSearchReturn(
         MultiSearchIngredients([self |-> self, bestResult |-> Null], 1,
                                currentStates, stepsRemaining,
                                availableIngredients, budgetLimit,
                                minAddictionLevel, currentSequence),
         stateKey, Len(currentSequence))

MultiSearch(self, currentStates, stepsRemaining, availableIngredients, budgetLimit, minAddictionLevel, currentSequence) ==
  MultiSearchFrom(self, getMultiSubstanceStateKey(currentStates),
                  currentStates, stepsRemaining, availableIngredients,
                  budgetLimit, minAddictionLevel, currentSequence)

\* initialStates.set(substance, createInitialState(substance)), or the
\* Error createInitialState threw.
setInitialState(initialStates, substance, state) ==
  IF IsError(state) THEN state
  ELSE [map |-> MapSet(initialStates.map, substance, state)]

\* Faulty variant: a substance the catalog does not hold is left out of
\* initialStates.
createInitialStateIn_SkipUnknown(initialStates, substance) ==
  IF IsError(initialStates) \/ ~hasSubstance(substance) THEN initialStates
  ELSE setInitialState(initialStates, substance, createInitialState(substance))

\* One iteration of the loop that fills initialStates.
createInitialStateIn(initialStates, substance) ==
  IF IsError(initialStates) THEN initialStates
  ELSE setInitialState(initialStates, substance, createInitialState(substance))

\* The loop that fills initialStates: [map |-> initialStates] after the
\* first k base substances, or the Error createInitialState threw.
RECURSIVE createInitialStates(_, _)
createInitialStates(baseSubstances, k) ==
  IF k = 0 THEN [map |-> <<>>]
  ELSE createInitialStateIn(createInitialStates(baseSubstances, k - 1),
                            baseSubstances[k])

\* `result || this.createResult(initialStates, [])`
MultiResultOrFallback(r, initialStates) ==
  [self |-> r.self,
   result |-> IF r.result # Null THEN r.result
              ELSE MultiCreateResult(initialStates, <<>>)]

\* findOptimalMix from the zero-steps test on.
MultiFindOptimalMixFrom(self, options, availableIngredients, initialStates) ==
  IF IsError(initialStates)
  THEN [self |-> self, result |-> initialStates]
  ELSE IF options.maxSteps = 0
  THEN [self |-> self, result |-> MultiCreateResult(initialStates.map, <<>>)]
  ELSE MultiResultOrFallback(
         MultiSearch(self, initialStates.map, options.maxSteps,
                     availableIngredients, options.budgetLimit,
                     options.minAddictionLevel, <<>>),
         initialStates.map)

\* Faulty variant: the test for an empty baseSubstances list is missing.
MultiFindOptimalMix_NoValidation(self, options) ==
  MultiFindOptimalMixFrom(
    self, options,
    OrElse(options.availableIngredients, getAllIngredients),
    createInitialStates(options.baseSubstances, Len(options.baseSubstances)))

\* findOptimalMix after cache.clear() and globalBest = null.
MultiFindOptimalMix(self, options) ==
  IF Len(options.baseSubstances) = 0
  THEN [self |-> self,
        result |-> Throw("At least one base substance must be specified")]
  ELSE MultiFindOptimalMixFrom(
         self, options,
         OrElse(options.availableIngredients, getAllIngredients),
         createInitialStates(options.baseSubstances,
                             Len(options.baseSubstances)))

(* ------------------------------- state --------------------------------- *)

VARIABLES
  mixState,        \* the MixState a Mixer client holds (applySequence's `state`)
  active,          \* the object this run drives: "none" before the first
                   \* call, then "mixer", "single" or "multi"
  pc,              \* "idle", or inside findOptimalMix of "single" / "multi"
  reused,          \* whether Optimizer.cache held entries of an earlier call
                   \* when the Optimizer's last findOptimalMix call began
  options,         \* argument of the Optimizer's last findOptimalMix call
  cache,           \* Optimizer.cache
  globalBest,      \* Optimizer.globalBest
  result,          \* what that call returned or threw; Null while it runs
  multiOptions,    \* the same four for the MultiProductOptimizer
  multiCache,
  multiGlobalBest,
  multiResult,
  heap,            \* the objects a Mixer client's calls have allocated
  stateRef,        \* the client's `state`: reference to its MixState, 0 if none
  applied,         \* the ingredients of the applyIngredient calls that returned
  lastCall,        \* the client's last Mixer call: method, argument, the
                   \* reference passed as currentState (0 if none) and the
                   \* outcome, [ref |-> r] returned or the Error thrown
  stack,           \* the frames of search, outermost first, while a
                   \* findOptimalMix call is followed one step at a time
  tick             \* flipped by every step of that call

vars ==
  <<mixState, active, pc, reused, options, cache, globalBest, result,
    multiOptions, multiCache, multiGlobalBest, multiResult,
    heap, stateRef, applied, lastCall, stack, tick>>

mixerVars == <<mixState>>

clientVars == <<heap, stateRef, applied, lastCall>>

optimizerVars == <<options, cache, globalBest, result>>

multiVars == <<multiOptions, multiCache, multiGlobalBest, multiResult>>

\* new Map()
EmptyMap == <<>>

\* State after the constructors: no Mixer state yet, both optimizers with an
\* empty cache and no global best, no call made.
Init ==
  /\ mixState = Null
  /\ active = "none"
  /\ pc = "idle"
  /\ reused = FALSE
  /\ options = Null
  /\ cache = EmptyMap
  /\ globalBest = Null
  /\ result = Null
  /\ multiOptions = Null
  /\ multiCache = EmptyMap
  /\ multiGlobalBest = Null
  /\ multiResult = Null
  /\ heap = <<>>
  /\ stateRef = 0
  /\ applied = <<>>
  /\ lastCall = Null
  /\ stack = <<>>
  /\ tick = 0

(* ------------------------ Mixer: applySequence ------------------------- *)

\* Longest ingredient sequence applied.
MaxSequence == 8

\* applySequence applies pool ingredients, and any catalog ingredient as the
\* last step.
MixerPool == {"Cuke", "Gasoline", "Paracetamol"}

CreateInitialState(substanceName) ==
  /\ mixState = Null
  /\ mixState' = createInitialState(substanceName)
  /\ UNCHANGED <<stack, tick, active, pc, reused, clientVars, optimizerVars, multiVars>>

ApplyIngredient(ingredientName) ==
  /\ mixState # Null
  /\ Len(mixState.ingredientsUsed) < MaxSequence
  /\ \A k \in 1..Len(mixState.ingredientsUsed) :
        mixState.ingredientsUsed[k] \in MixerPool
  /\ mixState' = applyIngredient(mixState, ingredientName)
  /\ UNCHANGED <<stack, tick, active, pc, reused, clientVars, optimizerVars, multiVars>>

NextMixer ==
  \/ \E substanceName \in DOMAIN SUBSTANCES : CreateInitialState(substanceName)
  \/ \E ingredientName \in DOMAIN INGREDIENTS : ApplyIngredient(ingredientName)

SpecMixer == Init /\ [][NextMixer]_vars

(* --------------------------- optimizer calls --------------------------- *)

\* Largest maxSteps with an explicit availableIngredients list.
MaxSteps == 2

\* Largest maxSteps when availableIngredients is absent (the whole catalog).
MaxCatalogSteps == 1

\* Longest explicit availableIngredients list.
MaxAvailable == 2

\* Longest baseSubstances list.
MaxBases == 2

IngredientPool == {"Mouth Wash", "Chili"}

\* Substances of the baseSubstances lists with more than one entry.
SubstancePool == {"OG Kush", "Meth"}

BudgetLimits == {0, 8}

MinAddictionLevels == {60}

SeqsUpTo(S, n) == UNION {[1..m -> S] : m \in 0..n}

Optional(S) == {Absent} \cup {Some(v) : v \in S}

\* Budgets of the calls that search one step deeper than MaxSteps.
DeepBudgetLimits == {15}

\* Calls one step deeper than MaxSteps over the list [Chili, Mouth Wash]:
\* deep enough for a budget to change which branches the search cuts and
\* for two paths to the same effect set to differ in cost.
DeepOptions ==
  {[maxSteps |-> MaxSteps + 1,
    availableIngredients |-> Some(<<"Chili", "Mouth Wash">>),
    budgetLimit |-> b,
    minAddictionLevel |-> Absent] : b \in Optional(DeepBudgetLimits)}

\* An ingredient name the catalog does not hold.
UnknownIngredient == "Unknown Ingredient"

\* Allowed lists outside the pool: Energy Drink gives Green Crack the effect
\* Shrinking, the one of the highest multiplier; the other lists hold an
\* entry that is not in the catalog.
SpecialLists ==
  {<<"Energy Drink">>, <<UnknownIngredient>>,
   <<UnknownIngredient, "Mouth Wash">>}

\* Calls of MaxSteps steps over the special lists.
SpecialOptions ==
  {[maxSteps |-> MaxSteps,
    availableIngredients |-> Some(l),
    budgetLimit |-> Absent,
    minAddictionLevel |-> Absent] : l \in SpecialLists}

CommonOptions ==
  {o \in [maxSteps : 0..MaxSteps,
          availableIngredients : Optional(SeqsUpTo(IngredientPool, MaxAvailable)),
          budgetLimit : Optional(BudgetLimits),
          minAddictionLevel : Optional(MinAddictionLevels)] :
     o.availableIngredients = Absent => o.maxSteps <= MaxCatalogSteps}
  \cup DeepOptions \cup SpecialOptions

WithBase(o, b) ==
  [baseSubstance |-> b, maxSteps |-> o.maxSteps,
   availableIngredients |-> o.availableIngredients,
   budgetLimit |-> o.budgetLimit, minAddictionLevel |-> o.minAddictionLevel]

WithBases(o, bs) ==
  [baseSubstances |-> bs, maxSteps |-> o.maxSteps,
   availableIngredients |-> o.availableIngredients,
   budgetLimit |-> o.budgetLimit, minAddictionLevel |-> o.minAddictionLevel]

\* A substance name the catalog does not hold.
UnknownSubstance == "Unknown Substance"

OptimizationOptions ==
  {WithBase(o, b) : o \in CommonOptions,
                    b \in DOMAIN SUBSTANCES \cup {UnknownSubstance}}

BaseSubstanceLists ==
  {<<>>} \cup {<<b>> : b \in DOMAIN SUBSTANCES}
         \cup (SeqsUpTo(SubstancePool, MaxBases) \ {<<>>})
         \cup {<<UnknownSubstance>>, <<"OG Kush", UnknownSubstance>>}

MultiSubstanceOptimizationOptions ==
  {WithBases(o, bs) : o \in CommonOptions, bs \in BaseSubstanceLists}

\* Faulty variant: the call starts without cache.clear() and globalBest = null.
OptimizerEnter_NoClear ==
  /\ pc = "idle"
  /\ active \in {"none", "single"}
  /\ active' = "single"
  /\ pc' = "single"
  /\ reused' = (cache # EmptyMap)
  /\ options' = Null
  /\ result' = Null
  /\ UNCHANGED <<stack, tick, cache, globalBest, mixerVars, clientVars, multiVars>>

\* Faulty variant: the call clears the cache and keeps the global best of the
\* call before it.
OptimizerEnter_KeepBest ==
  /\ pc = "idle"
  /\ active \in {"none", "single"}
  /\ active' = "single"
  /\ pc' = "single"
  /\ reused' = (cache # EmptyMap)
  /\ cache' = EmptyMap
  /\ options' = Null
  /\ result' = Null
  /\ UNCHANGED <<stack, tick, globalBest, mixerVars, clientVars, multiVars>>

\* Optimizer.findOptimalMix, first two statements.
OptimizerEnter ==
  /\ pc = "idle"
  /\ active \in {"none", "single"}
  /\ active' = "single"
  /\ pc' = "single"
  /\ reused' = (cache # EmptyMap)
  /\ cache' = EmptyMap
  /\ globalBest' = Null
  /\ options' = Null
  /\ result' = Null
  /\ UNCHANGED <<stack, tick, mixerVars, clientVars, multiVars>>

\* Optimizer.findOptimalMix, the rest of the call, for the argument opts.
OptimizerFindOptimalMix(opts) ==
  /\ pc = "single"
  /\ options' = opts
  /\ pc' = "idle"
  /\ \E r \in {findOptimalMix([cache |-> cache, globalBest |-> globalBest], opts)} :
        /\ cache' = r.self.cache
        /\ globalBest' = r.self.globalBest
        /\ result' = r.result
  /\ UNCHANGED <<stack, tick, mixerVars, clientVars, active, reused, multiVars>>

MultiEnter ==
  /\ pc = "idle"
  /\ active \in {"none", "multi"}
  /\ active' = "multi"
  /\ pc' = "multi"
  /\ multiCache' = EmptyMap
  /\ multiGlobalBest' = Null
  /\ multiOptions' = Null
  /\ multiResult' = Null
  /\ UNCHANGED <<stack, tick, mixerVars, clientVars, reused, optimizerVars>>

MultiProductFindOptimalMix(opts) ==
  /\ pc = "multi"
  /\ multiOptions' = opts
  /\ pc' = "idle"
  /\ \E r \in {MultiFindOptimalMix([cache |-> multiCache,
                                     globalBest |-> multiGlobalBest], opts)} :
        /\ multiCache' = r.self.cache
        /\ multiGlobalBest' = r.self.globalBest
        /\ multiResult' = r.result
  /\ UNCHANGED <<stack, tick, mixerVars, clientVars, active, reused, optimizerVars>>

(* ---------------------- Mixer calls on the heap ------------------------ *)

\* Largest number of applyIngredient calls that return.
MaxApplied == 2

\* The ingredient names a client passes to applyIngredient.
AppliedPool == MixerPool \cup IngredientPool \cup {UnknownIngredient}

\* state = mixer.createInitialState(substanceName), the first call of a
\* client that drives a Mixer; a throw leaves `state` unset.
MixerCreateInitialState(substanceName) ==
  /\ pc = "idle"
  /\ active = "none"
  /\ active' = "mixer"
  /\ \E r \in {Mixer_createInitialState(heap, substanceName)} :
        /\ heap' = r.heap
        /\ stateRef' = IF IsError(r.outcome) THEN stateRef ELSE r.outcome.ref
        /\ lastCall' = [method |-> "createInitialState",
                        argument |-> substanceName,
                        currentState |-> 0,
                        outcome |-> r.outcome]
  /\ UNCHANGED <<stack, tick, applied, pc, reused, mixerVars, optimizerVars, multiVars>>

\* state = mixer.applyIngredient(state, ingredientName); a throw leaves
\* `state` as it was.
MixerApplyIngredient(ingredientName) ==
  /\ pc = "idle"
  /\ active = "mixer"
  /\ stateRef # 0
  /\ Len(applied) < MaxApplied
  /\ \E r \in {Mixer_applyIngredient(heap, stateRef, ingredientName)} :
        /\ heap' = r.heap
        /\ stateRef' = IF IsError(r.outcome) THEN stateRef ELSE r.outcome.ref
        /\ applied' = IF IsError(r.outcome) THEN applied
                      ELSE Append(applied, ingredientName)
        /\ lastCall' = [method |-> "applyIngredient",
                        argument |-> ingredientName,
                        currentState |-> stateRef,
                        outcome |-> r.outcome]
  /\ UNCHANGED <<stack, tick, active, pc, reused, mixerVars, optimizerVars, multiVars>>

Next ==
  \/ \E substanceName \in DOMAIN SUBSTANCES \cup {UnknownSubstance} :
        MixerCreateInitialState(substanceName)
  \/ \E ingredientName \in AppliedPool :
        MixerApplyIngredient(ingredientName)
  \/ OptimizerEnter
  \/ \E opts \in OptimizationOptions : OptimizerFindOptimalMix(opts)
  \/ MultiEnter
  \/ \E opts \in MultiSubstanceOptimizationOptions :
        MultiProductFindOptimalMix(opts)

Spec == Init /\ [][Next]_vars

(* --------------------- search, one step at a time ---------------------- *)

\* The frame of a call of search: its arguments that change from call to
\* call, and the locals of its for-loop, k being the index of the next
\* iteration (0 until the loop is reached).
searchFrame(currentState, stepsRemaining, currentSequence) ==
  [currentState |-> currentState,
   stepsRemaining |-> stepsRemaining,
   currentSequence |-> currentSequence,
   k |-> 0,
   bestResult |-> Null]

\* The innermost frame and the frames of its callers.
Top == stack[Len(stack)]

Callers == SubSeq(stack, 1, Len(stack) - 1)

\* Faulty variant: the recursive call passes stepsRemaining on as it is.
searchCall_SameSteps(frame, newState, ingredient) ==
  searchFrame(newState, frame.stepsRemaining,
              Append(frame.currentSequence, ingredient))

\* this.search(newState, stepsRemaining - 1, ..., [...currentSequence,
\* ingredient]) called from `frame`.
searchCall(frame, newState, ingredient) ==
  searchFrame(newState, frame.stepsRemaining - 1,
              Append(frame.currentSequence, ingredient))

\* `continue`, or the catch block: the loop of `frame` goes on with the next
\* ingredient.
searchContinue(frame) == [frame EXCEPT !.k = @ + 1]

\* The calling frame once the recursive call has returned r = [self, result]:
\* bestResult is updated and the loop goes on.
searchResume(frame, r) ==
  [frame EXCEPT !.bestResult = searchNext(r, @).bestResult, !.k = @ + 1]

\* Whether search gets past its three early returns (cached result, pruned
\* branch, base case) to the for-loop.
searchReachesLoop(self, stateKey, currentState, stepsRemaining, availableIngredients, currentSequence) ==
  /\ ~(/\ stateKey \in DOMAIN self.cache
       /\ self.cache[stateKey].stepsUsed <= Len(currentSequence))
  /\ ~(/\ self.globalBest # Null
       /\ estimateMaxProfit(currentState, stepsRemaining, availableIngredients)
            <= self.globalBest.profit)
  /\ stepsRemaining # 0

\* Optimizer.findOptimalMix up to its call of search.
OptimizerCall(opts) ==
  /\ pc = "idle"
  /\ active = "none"
  /\ active' = "single"
  /\ reused' = (cache # EmptyMap)
  /\ cache' = EmptyMap
  /\ globalBest' = Null
  /\ options' = opts
  /\ tick' = 0
  /\ \E initialState \in {createInitialState(opts.baseSubstance)} :
        IF IsError(initialState)
        THEN /\ result' = initialState
             /\ UNCHANGED <<pc, stack>>
        ELSE IF opts.maxSteps = 0
        THEN /\ result' = createResult(initialState, <<>>)
             /\ UNCHANGED <<pc, stack>>
        ELSE /\ result' = Null
             /\ pc' = "single"
             /\ stack' = <<searchFrame(initialState, opts.maxSteps, <<>>)>>
  /\ UNCHANGED <<mixerVars, clientVars, multiVars>>

\* The innermost call of search returns r = [self, result]: to the frame
\* that called it or, from the outermost call, to findOptimalMix, which
\* returns `result || this.createResult(initialState, [])`.
OptimizerSearchReturns(r) ==
  /\ cache' = r.self.cache
  /\ globalBest' = r.self.globalBest
  /\ IF Len(stack) = 1
     THEN /\ stack' = <<>>
          /\ pc' = "idle"
          /\ result' = resultOrFallback(r, Top.currentState).result
     ELSE /\ stack' = Append(SubSeq(stack, 1, Len(stack) - 2),
                             searchResume(stack[Len(stack) - 1], r))
          /\ UNCHANGED <<pc, result>>

\* Optimizer.search from its entry to the for-loop or to an early return.
OptimizerSearchEnter ==
  /\ pc = "single"
  /\ tick' = 1 - tick
  /\ Top.k = 0
  /\ \E self \in {[cache |-> cache, globalBest |-> globalBest]}, stateKey \in {getStateKey(Top.currentState.effects)} :
        IF searchReachesLoop(self, stateKey, Top.currentState,
                             Top.stepsRemaining, OrElse(options.availableIngredients, getAllIngredients),
                             Top.currentSequence)
        THEN /\ stack' = Append(Callers, searchContinue(Top))
             /\ UNCHANGED <<pc, cache, globalBest, result>>
        ELSE OptimizerSearchReturns(
               searchFrom(self, stateKey, Top.currentState, Top.stepsRemaining,
                          OrElse(options.availableIngredients, getAllIngredients), options.budgetLimit,
                          options.minAddictionLevel, Top.currentSequence))
  /\ UNCHANGED <<mixerVars, clientVars, multiVars, active, reused, options>>

\* One iteration of the for-loop of Optimizer.search, up to the recursive
\* call if it gets there.
OptimizerSearchIterate ==
  /\ pc = "single"
  /\ tick' = 1 - tick
  /\ Top.k \in 1..Len(OrElse(options.availableIngredients, getAllIngredients))
  /\ \E ingredient \in {OrElse(options.availableIngredients, getAllIngredients)[Top.k]} :
        IF /\ TruthyNumber(options.budgetLimit)
           /\ Top.currentState.totalCost + getIngredientCost(ingredient)
                > options.budgetLimit[1]
        THEN stack' = Append(Callers, searchContinue(Top))
        ELSE \E newState \in {applyIngredient(Top.currentState, ingredient)} :
                IF IsError(newState)
                THEN stack' = Append(Callers, searchContinue(Top))
                ELSE stack' = Append(stack, searchCall(Top, newState, ingredient))
  /\ UNCHANGED <<mixerVars, clientVars, multiVars, optimizerVars, active, reused, pc>>

\* The end of Optimizer.search after the last iteration of its for-loop.
OptimizerSearchExit ==
  /\ pc = "single"
  /\ tick' = 1 - tick
  /\ Top.k > Len(OrElse(options.availableIngredients, getAllIngredients))
  /\ OptimizerSearchReturns(
       searchReturn([self |-> [cache |-> cache, globalBest |-> globalBest],
                     bestResult |-> Top.bestResult],
                    getStateKey(Top.currentState.effects),
                    Len(Top.currentSequence)))
  /\ UNCHANGED <<mixerVars, clientVars, multiVars, active, reused, options>>

\* The frame of a call of MultiProductOptimizer.search.
MultiSearchFrame(currentStates, stepsRemaining, currentSequence) ==
  [currentStates |-> currentStates,
   stepsRemaining |-> stepsRemaining,
   currentSequence |-> currentSequence,
   k |-> 0,
   bestResult |-> Null]

\* this.search(newStates, stepsRemaining - 1, ..., [...currentSequence,
\* ingredient]) called from `frame`.
MultiSearchCall(frame, newStates, ingredient) ==
  MultiSearchFrame(newStates, frame.stepsRemaining - 1,
                   Append(frame.currentSequence, ingredient))

\* The calling frame of MultiProductOptimizer.search once the recursive
\* call has returned r = [self, result].
MultiSearchResume(frame, r) ==
  [frame EXCEPT !.bestResult = MultiSearchNext(r, @).bestResult, !.k = @ + 1]

\* Whether MultiProductOptimizer.search gets past its three early returns
\* to the for-loop.
MultiSearchReachesLoop(self, stateKey, currentStates, stepsRemaining, availableIngredients, currentSequence) ==
  /\ ~(/\ stateKey \in DOMAIN self.cache
       /\ self.cache[stateKey].stepsUsed <= Len(currentSequence))
  /\ ~(/\ self.globalBest # Null
       /\ estimateMaxCombinedProfit(currentStates, stepsRemaining,
                                    availableIngredients)
            <= self.globalBest.totalProfit)
  /\ stepsRemaining # 0

\* MultiProductOptimizer.findOptimalMix up to its call of search.
MultiCall(opts) ==
  /\ pc = "idle"
  /\ active = "none"
  /\ active' = "multi"
  /\ multiCache' = EmptyMap
  /\ multiGlobalBest' = Null
  /\ multiOptions' = opts
  /\ tick' = 0
  /\ IF Len(opts.baseSubstances) = 0
     THEN /\ multiResult' = Throw("At least one base substance must be specified")
          /\ UNCHANGED <<pc, stack>>
     ELSE \E initialStates \in {createInitialStates(opts.baseSubstances, Len(opts.baseSubstances))} :
             IF IsError(initialStates)
             THEN /\ multiResult' = initialStates
                  /\ UNCHANGED <<pc, stack>>
             ELSE IF opts.maxSteps = 0
             THEN /\ multiResult' = MultiCreateResult(initialStates.map, <<>>)
                  /\ UNCHANGED <<pc, stack>>
             ELSE /\ multiResult' = Null
                  /\ pc' = "multi"
                  /\ stack' = <<MultiSearchFrame(initialStates.map, opts.maxSteps, <<>>)>>
  /\ UNCHANGED <<mixerVars, clientVars, optimizerVars, reused>>

\* The innermost call of MultiProductOptimizer.search returns
\* r = [self, result], to its calling frame or to findOptimalMix.
MultiSearchReturns(r) ==
  /\ multiCache' = r.self.cache
  /\ multiGlobalBest' = r.self.globalBest
  /\ IF Len(stack) = 1
     THEN /\ stack' = <<>>
          /\ pc' = "idle"
          /\ multiResult' = MultiResultOrFallback(r, Top.currentStates).result
     ELSE /\ stack' = Append(SubSeq(stack, 1, Len(stack) - 2),
                             MultiSearchResume(stack[Len(stack) - 1], r))
          /\ UNCHANGED <<pc, multiResult>>

\* MultiProductOptimizer.search from its entry to the for-loop or to an
\* early return.
MultiSearchEnter ==
  /\ pc = "multi"
  /\ tick' = 1 - tick
  /\ Top.k = 0
  /\ \E self \in {[cache |-> multiCache, globalBest |-> multiGlobalBest]}, stateKey \in {getMultiSubstanceStateKey(Top.currentStates)} :
        IF MultiSearchReachesLoop(self, stateKey, Top.currentStates,
                                  Top.stepsRemaining, OrElse(multiOptions.availableIngredients, getAllIngredients),
                                  Top.currentSequence)
        THEN /\ stack' = Append(Callers, searchContinue(Top))
             /\ UNCHANGED <<pc, multiCache, multiGlobalBest, multiResult>>
        ELSE MultiSearchReturns(
               MultiSearchFrom(self, stateKey, Top.currentStates,
                               Top.stepsRemaining, OrElse(multiOptions.availableIngredients, getAllIngredients),
                               multiOptions.budgetLimit,
                               multiOptions.minAddictionLevel,
                               Top.currentSequence))
  /\ UNCHANGED <<mixerVars, clientVars, optimizerVars, active, reused, multiOptions>>

\* One iteration of the for-loop of MultiProductOptimizer.search, up to the
\* recursive call if it gets there.
MultiSearchIterate ==
  /\ pc = "multi"
  /\ tick' = 1 - tick
  /\ Top.k \in 1..Len(OrElse(multiOptions.availableIngredients, getAllIngredients))
  /\ \E ingredient \in {OrElse(multiOptions.availableIngredients, getAllIngredients)[Top.k]} :
        IF /\ TruthyNumber(multiOptions.budgetLimit)
           /\ getTotalCost(Top.currentStates) + getIngredientCost(ingredient)
                > multiOptions.budgetLimit[1]
        THEN stack' = Append(Callers, searchContinue(Top))
        ELSE \E newStates \in {applyToStates(Top.currentStates, ingredient, Len(Top.currentStates))} :
                IF IsError(newStates)
                THEN stack' = Append(Callers, searchContinue(Top))
                ELSE stack' = Append(stack, MultiSearchCall(Top, newStates.map, ingredient))
  /\ UNCHANGED <<mixerVars, clientVars, optimizerVars, multiVars, active, reused, pc>>

\* The end of MultiProductOptimizer.search after the last iteration.
MultiSearchExit ==
  /\ pc = "multi"
  /\ tick' = 1 - tick
  /\ Top.k > Len(OrElse(multiOptions.availableIngredients, getAllIngredients))
  /\ MultiSearchReturns(
       MultiSearchReturn([self |-> [cache |-> multiCache,
                                    globalBest |-> multiGlobalBest],
                          bestResult |-> Top.bestResult],
                         getMultiSubstanceStateKey(Top.currentStates),
                         Len(Top.currentSequence)))
  /\ UNCHANGED <<mixerVars, clientVars, optimizerVars, active, reused, multiOptions>>

\* The calls followed step by step: every option combination, on one base
\* substance and an unknown one, and on lists of these.
SearchedOptions ==
  {o \in OptimizationOptions : o.baseSubstance \in {"OG Kush", UnknownSubstance}}

MultiSearchedOptions ==
  {o \in MultiSubstanceOptimizationOptions :
     o.baseSubstances \in {<<>>, <<"OG Kush">>, <<"OG Kush", "Meth">>,
                           <<"OG Kush", UnknownSubstance>>}}

NextSearch ==
  \/ \E opts \in SearchedOptions : OptimizerCall(opts)
  \/ OptimizerSearchEnter
  \/ OptimizerSearchIterate
  \/ OptimizerSearchExit
  \/ \E opts \in MultiSearchedOptions : MultiCall(opts)
  \/ MultiSearchEnter
  \/ MultiSearchIterate
  \/ MultiSearchExit

\* findOptimalMix is synchronous: once called it runs on, statement after
\* statement, until it returns or throws.  Every step of search flips tick,
\* so while a call is in progress a step is eventually taken.
SpecSearch ==
  /\ Init
  /\ [][NextSearch]_vars
  /\ WF_tick(pc # "idle" /\ tick' = 1 - tick)

(* ------------------------------ properties ----------------------------- *)

Last(seq) == seq[Len(seq)]

\* C3: in every MixState reached by createInitialState and any sequence of
\* applyIngredient calls the effect set holds at most 8 effects.
C3_EffectLimit ==
  mixState # Null => Len(mixState.effects) <= MAX_EFFECTS

\* A full effect set on which the last ingredient's default effect found no
\* room.
C3_Witness ==
  /\ mixState # Null
  /\ Len(mixState.ingredientsUsed) >= MAX_EFFECTS
  /\ Len(mixState.effects) = MAX_EFFECTS
  /\ ~SetHas(mixState.effects,
             getIngredient(Last(mixState.ingredientsUsed)).defaultEffect)

\* Where one effect ends up when the rules are read once, in listed order:
\* each rule whose condition is the effect's current form turns it into the
\* rule's replacement.
RECURSIVE RuleImage(_, _, _)
RuleImage(effect, rules, k) ==
  IF k = 0 THEN effect
  ELSE LET current == RuleImage(effect, rules, k - 1)
       IN IF rules[k].condition = current THEN rules[k].replacement ELSE current

ExpectedEffects(effects, ingredientName) ==
  LET ingredient == INGREDIENTS[ingredientName]
      rules == ingredient.transformationRules
      transformed == {RuleImage(e, rules, Len(rules)) : e \in Elems(effects)}
  IN IF Cardinality(transformed) < 8 /\ ingredient.defaultEffect \notin transformed
     THEN transformed \cup {ingredient.defaultEffect}
     ELSE transformed

\* C4: applyIngredient(s, i) leaves the effects of s with i's rules applied
\* one by one in listed order to the changing set, plus i's default effect
\* iff fewer than 8 effects remain and it is not among them; Gasoline turns
\* Energizing into Spicy, Banana turns OG Kush's {Calming} into
\* {Sneaky, Gingeritis}.
C4_RulesInOrder ==
  [][(mixState # Null /\ mixState' # mixState) =>
       LET i == Last(mixState'.ingredientsUsed)
       IN /\ Elems(mixState'.effects) = ExpectedEffects(mixState.effects, i)
          /\ Len(mixState'.effects) = Cardinality(Elems(mixState'.effects))
          /\ (i = "Gasoline" /\ SetHas(mixState.effects, "Energizing"))
               => /\ SetHas(mixState'.effects, "Spicy")
                  /\ ~SetHas(mixState'.effects, "Euphoric")
                  /\ ~SetHas(mixState'.effects, "Energizing")
          /\ (i = "Banana" /\ mixState = createInitialState("OG Kush"))
               => Elems(mixState'.effects) = {"Sneaky", "Gingeritis"}]_vars

\* Gasoline applied to Meth after Cuke: Cuke's Energizing went through
\* Energizing -> Euphoric and Euphoric -> Spicy in the one application.
C4_Witness ==
  /\ mixState # Null
  /\ mixState.baseSubstance = "Meth"
  /\ mixState.ingredientsUsed = <<"Cuke", "Gasoline">>
  /\ Elems(mixState.effects) = {"Spicy", "Toxic"}

(* ---------------- properties of the optimizers' results ---------------- *)

\* The Optimizer has returned from findOptimalMix(options) with `result`.
SingleReturned ==
  /\ active = "single" /\ pc = "idle" /\ options # Null
  /\ ~IsError(result)

\* The MultiProductOptimizer has returned from findOptimalMix(multiOptions).
MultiReturned ==
  /\ active = "multi" /\ pc = "idle" /\ multiOptions # Null
  /\ ~IsError(multiResult)

\* The list passed in, or the catalog when none is.
AllowedIngredients(o) ==
  IF o.availableIngredients = Absent THEN getAllIngredients
  ELSE o.availableIngredients[1]

\* The entries of the allowed list that applyIngredient accepts.
KnownAllowed(o) == {j \in Elems(AllowedIngredients(o)) : hasIngredient(j)}

\* The sequences of exactly o.maxSteps allowed ingredients of the catalog.
FullSequences(o) == [1..o.maxSteps -> KnownAllowed(o)]

\* The budget, when given, covers the cost after every step of seq.
WithinBudget(base, seq, budgetLimit) ==
  budgetLimit # Absent =>
    \A k \in 1..Len(seq) :
       applySequence(base, SubSeq(seq, 1, k)).totalCost <= budgetLimit[1]

\* The minimum addiction, when given, is met after the last step of seq.
MeetsMinAddiction(base, seq, minAddictionLevel) ==
  minAddictionLevel # Absent =>
    applySequence(base, seq).totalAddiction >= minAddictionLevel[1]

\* seq respects the budget and, for every base of bases, the minimum.
Feasible(bases, seq, o) ==
  /\ \A b \in bases : WithinBudget(b, seq, o.budgetLimit)
  /\ \A b \in bases : MeetsMinAddiction(b, seq, o.minAddictionLevel)

FeasibleSequences(bases, o) == {seq \in FullSequences(o) : Feasible(bases, seq, o)}

\* C1: with maxSteps >= 1 and some feasible sequence of exactly maxSteps
\* allowed ingredients, the profit returned by the single-target
\* findOptimalMix is the maximum profit over those sequences.
C1_OptimalProfit ==
  (SingleReturned /\ options.maxSteps >= 1) =>
    LET feasible == FeasibleSequences({options.baseSubstance}, options)
        profit(seq) == calculateProfit(applySequence(options.baseSubstance, seq))
    IN feasible # {} =>
         /\ \A seq \in feasible : profit(seq) <= result.profit
         /\ \E seq \in feasible : profit(seq) = result.profit

\* C2: with a budgetLimit >= 0 given, the totalCost either optimizer
\* returns is at most budgetLimit.
C2_WithinBudget ==
  /\ (SingleReturned /\ options.budgetLimit # Absent) =>
       result.totalCost <= options.budgetLimit[1]
  /\ (MultiReturned /\ multiOptions.budgetLimit # Absent) =>
       multiResult.totalCost <= multiOptions.budgetLimit[1]

\* C5: with a minAddictionLevel m > 0 given, the single-target result has
\* totalAddiction >= m and every sub-result of the multi-target result has
\* totalAddiction >= m.
C5_MeetsMinAddiction ==
  /\ (SingleReturned /\ options.minAddictionLevel # Absent
        /\ options.minAddictionLevel[1] > 0) =>
       result.totalAddiction >= options.minAddictionLevel[1]
  /\ (MultiReturned /\ multiOptions.minAddictionLevel # Absent
        /\ multiOptions.minAddictionLevel[1] > 0) =>
       \A k \in 1..Len(multiResult.substanceResults) :
          multiResult.substanceResults[k].totalAddiction
            >= multiOptions.minAddictionLevel[1]

\* The result a call falls back to: the empty sequence although steps were
\* asked for.
IsFallback(o, r) == o.maxSteps >= 1 /\ r.sequence = <<>>

\* C6: with a minAddictionLevel m > 0, either optimizer returns the
\* base-state fallback only if no sequence of exactly maxSteps allowed
\* ingredients within the budget ends with addiction >= m for every tracked
\* substance; if there is such a sequence, the result is a sequence of
\* maxSteps ingredients and meets the minimum.
C6_FallbackOnlyIfInfeasible ==
  /\ (SingleReturned /\ options.minAddictionLevel # Absent
        /\ options.minAddictionLevel[1] > 0) =>
       LET feasible == FeasibleSequences({options.baseSubstance}, options)
       IN /\ IsFallback(options, result) => feasible = {}
          /\ feasible # {} =>
               /\ Len(result.sequence) = options.maxSteps
               /\ result.totalAddiction >= options.minAddictionLevel[1]
               /\ result.mixState
                    = applySequence(options.baseSubstance, result.sequence)
  /\ (MultiReturned /\ multiOptions.minAddictionLevel # Absent
        /\ multiOptions.minAddictionLevel[1] > 0) =>
       LET feasible ==
             FeasibleSequences(Elems(multiOptions.baseSubstances), multiOptions)
       IN /\ IsFallback(multiOptions, multiResult) => feasible = {}
          /\ feasible # {} =>
               /\ Len(multiResult.sequence) = multiOptions.maxSteps
               /\ \A k \in 1..Len(multiResult.substanceResults) :
                    LET sub == multiResult.substanceResults[k]
                    IN /\ sub.totalAddiction
                            >= multiOptions.minAddictionLevel[1]
                       /\ sub.mixState
                            = applySequence(sub.substance, multiResult.sequence)

\* A multi-target call for two substances fell back although a sequence
\* would have brought one of them to the minimum.
C6_Witness ==
  /\ MultiReturned
  /\ multiOptions.minAddictionLevel # Absent
  /\ IsFallback(multiOptions, multiResult)
  /\ Len(multiResult.substanceResults) = 2
  /\ \E seq \in FullSequences(multiOptions), b \in Elems(multiOptions.baseSubstances) :
        /\ WithinBudget(b, seq, multiOptions.budgetLimit)
        /\ MeetsMinAddiction(b, seq, multiOptions.minAddictionLevel)

\* The longest feasible sequence of at most o.maxSteps allowed ingredients.
MaxFeasibleLength(base, o) ==
  CHOOSE n \in 0..o.maxSteps :
    /\ FeasibleSequences({base}, [o EXCEPT !.maxSteps = n]) # {}
    /\ \A m \in (n + 1)..o.maxSteps :
          FeasibleSequences({base}, [o EXCEPT !.maxSteps = m]) = {}

\* C7: the single-target findOptimalMix returns exactly maxSteps ingredients
\* whenever some sequence of maxSteps allowed ingredients satisfies the
\* constraints, and otherwise as many steps as the constraints admit.  Read
\* on the calls without budgetLimit or with a positive one and without
\* minAddictionLevel, where the constraints always admit the empty sequence.
C7_AsManyStepsAsFeasible ==
  (SingleReturned /\ options.minAddictionLevel = Absent
     /\ (options.budgetLimit = Absent \/ options.budgetLimit[1] > 0)) =>
    Len(result.sequence) = MaxFeasibleLength(options.baseSubstance, options)

\* C8: findOptimalMix with maxSteps = 0 returns the empty sequence at cost 0
\* with each (sub-)result's effects the substance's initial effects, and the
\* cache and the global best are empty afterwards; for every base substance
\* and every non-empty base list.
C8_ZeroSteps ==
  /\ (SingleReturned /\ options.maxSteps = 0) =>
       /\ result.sequence = <<>>
       /\ result.totalCost = 0
       /\ result.finalEffects = getSubstance(options.baseSubstance).initialEffects
       /\ result.mixState.effects = result.finalEffects
       /\ cache = EmptyMap
       /\ globalBest = Null
  /\ (MultiReturned /\ multiOptions.maxSteps = 0) =>
       /\ multiResult.sequence = <<>>
       /\ multiResult.totalCost = 0
       /\ Elems(multiOptions.baseSubstances)
            = {multiResult.substanceResults[k].substance :
                 k \in 1..Len(multiResult.substanceResults)}
       /\ \A k \in 1..Len(multiResult.substanceResults) :
            LET sub == multiResult.substanceResults[k]
            IN /\ sub.finalEffects = getSubstance(sub.substance).initialEffects
               /\ sub.mixState.effects = sub.finalEffects
       /\ multiCache = EmptyMap
       /\ multiGlobalBest = Null

\* A zero-step call of an Optimizer whose call before it searched: `result`
\* is the zero-step result for a substance with an initial effect.
C8_Witness ==
  /\ SingleReturned
  /\ options.maxSteps = 0
  /\ options.baseSubstance = "OG Kush"
  /\ result.sequence = <<>>
  /\ result.finalEffects = <<"Calming">>

\* C9: every ingredient of the sequence either optimizer returns is in the
\* availableIngredients list passed in, or in the catalog when none is.
C9_SequenceFromAllowed ==
  /\ SingleReturned =>
       Elems(result.sequence) \subseteq Elems(AllowedIngredients(options))
  /\ MultiReturned =>
       Elems(multiResult.sequence) \subseteq Elems(AllowedIngredients(multiOptions))

\* A two-step sequence returned for a one-ingredient list.
C9_Witness ==
  /\ SingleReturned
  /\ options.availableIngredients = Some(<<"Chili">>)
  /\ result.sequence = <<"Chili", "Chili">>

\* What a fresh Optimizer returns for options o.
SingleResult(o) ==
  findOptimalMix([cache |-> EmptyMap, globalBest |-> Null], o).result

\* C10: the multi-target optimizer called with the list [s] returns the
\* sequence, the total cost and the profit the single-target optimizer
\* returns for s under the same maxSteps, allowed list, budget and minimum
\* addiction.
C10_SingleEquivalence ==
  (MultiReturned /\ Len(multiOptions.baseSubstances) = 1) =>
    LET single == SingleResult(WithBase(multiOptions, multiOptions.baseSubstances[1]))
    IN /\ multiResult.sequence = single.sequence
       /\ multiResult.totalCost = single.totalCost
       /\ multiResult.totalProfit = single.profit

\* A one-substance multi-target call that searched two steps deep and
\* returned a two-step sequence.
C10_Witness ==
  /\ MultiReturned
  /\ multiOptions.baseSubstances = <<"Meth">>
  /\ multiOptions.maxSteps = 2
  /\ Len(multiResult.sequence) = 2
  /\ multiResult.totalCost > 0

(* ------------------- properties of the combined result ----------------- *)

\* Sum of the catalog costs of the ingredients of seq.
RECURSIVE SequenceCost(_, _)
SequenceCost(seq, k) ==
  IF k = 0 THEN 0 ELSE SequenceCost(seq, k - 1) + INGREDIENTS[seq[k]].cost

RECURSIVE SumSellPrice(_, _)
SumSellPrice(substanceResults, k) ==
  IF k = 0 THEN 0
  ELSE SumSellPrice(substanceResults, k - 1) + substanceResults[k].sellPrice

\* C11: in every result of the multi-target findOptimalMix, totalSellPrice
\* is the sum of the sub-results' sellPrice and totalProfit is
\* totalSellPrice - totalCost, totalCost being the cost of the shared
\* sequence counted once, whatever the number of substances.
C11_SharedCostOnce ==
  MultiReturned =>
    /\ multiResult.totalSellPrice
         = SumSellPrice(multiResult.substanceResults,
                        Len(multiResult.substanceResults))
    /\ multiResult.totalProfit
         = multiResult.totalSellPrice - 100 * multiResult.totalCost
    /\ multiResult.totalCost
         = SequenceCost(multiResult.sequence, Len(multiResult.sequence))

\* A two-step sequence returned for two substances: its cost is paid once.
C11_Witness ==
  /\ MultiReturned
  /\ Len(multiResult.substanceResults) = 2
  /\ Len(multiResult.sequence) = 2
  /\ multiResult.totalCost > 0
  /\ multiResult.totalProfit
       > SumSubstanceProfit(multiResult.substanceResults, 2)

\* The states a multi-target search node holds after the ingredients of seq:
\* the branch step repeated from the initial states.
RECURSIVE NodeStates(_, _, _)
NodeStates(initialStates, seq, k) ==
  IF k = 0 THEN initialStates
  ELSE LET states == NodeStates(initialStates, seq, k - 1)
       IN applyToStates(states, seq[k], Len(states)).map

\* The sequences of at most o.maxSteps allowed ingredients of the catalog:
\* the paths from the root to the nodes of the search tree.
NodePaths(o) == UNION {[1..n -> KnownAllowed(o)] : n \in 0..o.maxSteps}

\* C12: every returned result is realizable and consistent.  Multi-target:
\* each sub-result's mixState has ingredientsUsed = result.sequence and
\* totalCost = result.totalCost and is the state the sequence makes of the
\* substance, and at every node of the search tree all tracked states share
\* one sequence and one cumulative cost.  Single-target: mixState is the
\* state obtained by applying result.sequence to the base substance and
\* totalCost is the sum of the sequence's ingredient costs.
C12_ResultRealizable ==
  /\ SingleReturned =>
       /\ result.mixState = applySequence(options.baseSubstance, result.sequence)
       /\ result.mixState.ingredientsUsed = result.sequence
       /\ result.totalCost = SequenceCost(result.sequence, Len(result.sequence))
  /\ MultiReturned =>
       /\ \A k \in 1..Len(multiResult.substanceResults) :
            LET sub == multiResult.substanceResults[k]
            IN /\ sub.mixState.ingredientsUsed = multiResult.sequence
               /\ sub.mixState.totalCost = multiResult.totalCost
               /\ sub.mixState = applySequence(sub.substance, multiResult.sequence)
       /\ \A seq \in NodePaths(multiOptions) :
            LET states ==
                  NodeStates(createInitialStates(multiOptions.baseSubstances,
                                                 Len(multiOptions.baseSubstances)).map,
                             seq, Len(seq))
            IN \A k \in 1..Len(states) :
                 /\ states[k].value.ingredientsUsed = seq
                 /\ states[k].value.totalCost = SequenceCost(seq, Len(seq))

\* A multi-target result for two substances after a search two steps deep,
\* in which the second order of Mouth Wash and Chili met the cache entry of
\* the first for Meth's effects.
C12_Witness ==
  /\ MultiReturned
  /\ multiOptions.baseSubstances = <<"OG Kush", "Meth">>
  /\ Len(multiResult.substanceResults) = 2
  /\ Len(multiResult.sequence) = 2
  /\ multiResult.totalCost > 0

\* The substances of the sub-results, in result order.
ResultSubstances(r) ==
  [k \in 1..Len(r.substanceResults) |-> r.substanceResults[k].substance]

\* The entries of seq without the repetitions of an earlier entry.
RECURSIVE FirstOccurrences(_, _)
FirstOccurrences(seq, k) ==
  IF k = 0 THEN <<>>
  ELSE IF \E j \in 1..(k - 1) : seq[j] = seq[k]
  THEN FirstOccurrences(seq, k - 1)
  ELSE Append(FirstOccurrences(seq, k - 1), seq[k])

\* C13 as claimed: for every non-empty baseSubstances list and every
\* maxSteps, the multi-target result contains exactly one sub-result per
\* entry of baseSubstances, in the order the entries were given.
C13_OneSubResultPerEntry ==
  MultiReturned => ResultSubstances(multiResult) = multiOptions.baseSubstances

\* C13 as amended: the multi-target result contains exactly one sub-result
\* per distinct substance of baseSubstances, in the order of the first
\* occurrences; a list without repetitions gets one sub-result per entry, in
\* the order given.
C13_OneSubResultPerSubstance ==
  MultiReturned =>
    ResultSubstances(multiResult)
      = FirstOccurrences(multiOptions.baseSubstances,
                         Len(multiOptions.baseSubstances))

\* A searched result for two substances given against their sort order.
C13_Witness ==
  /\ MultiReturned
  /\ multiOptions.baseSubstances = <<"OG Kush", "Meth">>
  /\ multiOptions.maxSteps = 2
  /\ Len(multiResult.sequence) = 2
  /\ ResultSubstances(multiResult) = <<"OG Kush", "Meth">>

\* The MultiProductOptimizer has left findOptimalMix(multiOptions), by a
\* return or by a throw.
MultiCompleted == active = "multi" /\ pc = "idle" /\ multiOptions # Null

\* C14: the multi-target findOptimalMix called with an empty baseSubstances
\* list throws 'At least one base substance must be specified' and returns
\* no result, for every maxSteps (0 included) and every other option.
C14_EmptyListRejected ==
  (MultiCompleted /\ multiOptions.baseSubstances = <<>>) =>
    /\ multiResult = Throw("At least one base substance must be specified")
    /\ ~MultiReturned

\* The call with an empty list and maxSteps = 0, with the other options
\* given, has thrown.
C14_Witness ==
  /\ MultiCompleted
  /\ multiOptions.baseSubstances = <<>>
  /\ multiOptions.maxSteps = 0
  /\ multiOptions.budgetLimit # Absent
  /\ multiOptions.availableIngredients # Absent
  /\ IsError(multiResult)

\* A multi-target call for two base substances without a budget limit has
\* returned.
PairReturned ==
  /\ MultiReturned
  /\ Len(multiOptions.baseSubstances) = 2
  /\ multiOptions.budgetLimit = Absent

C16_BudgetNeverCostsMore ==
  (SingleReturned /\ options.budgetLimit # Absent) =>
    LET unconstrained == SingleResult([options EXCEPT !.budgetLimit = Absent])
    IN /\ result.totalCost <= unconstrained.totalCost
       /\ unconstrained.sellPrice >= result.sellPrice

\* The Optimizer has left findOptimalMix(options), by a return or a throw.
SingleCompleted == active = "single" /\ pc = "idle" /\ options # Null

\* What a fresh MultiProductOptimizer returns or throws for options o.
MultiResult(o) ==
  MultiFindOptimalMix([cache |-> EmptyMap, globalBest |-> Null], o).result

\* C17: every findOptimalMix call starts from an empty cache and no global
\* best: after any sequence of earlier calls on the same instance, failed
\* ones included, a call returns (or throws) what the same call on a fresh
\* instance does.
C17_CallsIndependent ==
  /\ pc = "single" => (cache = EmptyMap /\ globalBest = Null)
  /\ pc = "multi" => (multiCache = EmptyMap /\ multiGlobalBest = Null)
  /\ SingleCompleted => result = SingleResult(options)
  /\ MultiCompleted => multiResult = MultiResult(multiOptions)

\* A call that found the cache filled by an earlier call and searched two
\* steps deep.
C17_Witness ==
  /\ SingleReturned
  /\ reused
  /\ options.maxSteps = 2
  /\ Len(result.sequence) = 2
  /\ cache # EmptyMap

(* ------------------------- properties of the Mixer --------------------- *)

\* The client's last Mixer call was `method`.
LastCallWas(method) == lastCall # Null /\ lastCall.method = method

\* Some entry of the base list is not in the catalog.
HasUnknownSubstance(baseSubstances) ==
  \E k \in 1..Len(baseSubstances) : ~hasSubstance(baseSubstances[k])

\* C18: createInitialState throws a not-found error for a substance name
\* the catalog does not hold and creates no state; findOptimalMix of either
\* optimizer called with such a base substance throws that error and returns
\* no result; applyIngredient throws a not-found error for an ingredient
\* name the catalog does not hold.
C18_NotFoundErrors ==
  /\ (LastCallWas("createInitialState") /\ ~hasSubstance(lastCall.argument)) =>
       /\ lastCall.outcome = Throw("Substance not found")
       /\ stateRef = 0
  /\ (LastCallWas("applyIngredient") /\ ~hasIngredient(lastCall.argument)) =>
       lastCall.outcome = Throw("Ingredient not found")
  /\ (SingleCompleted /\ ~hasSubstance(options.baseSubstance)) =>
       /\ result = Throw("Substance not found")
       /\ ~SingleReturned
  /\ (MultiCompleted /\ HasUnknownSubstance(multiOptions.baseSubstances)) =>
       /\ multiResult = Throw("Substance not found")
       /\ ~MultiReturned

\* A multi-target call with maxSteps = 0 whose second base substance is
\* unknown: the error of createInitialState has left findOptimalMix.
C18_Witness ==
  /\ MultiCompleted
  /\ multiOptions.baseSubstances = <<"OG Kush", UnknownSubstance>>
  /\ multiOptions.maxSteps = 0
  /\ multiResult = createInitialState(UnknownSubstance)
  /\ IsError(multiResult)

\* The call of applyIngredient about to be made: the client holds a state.
ApplyIngredientStep == active = "mixer" /\ stateRef # 0

\* C19: a call of applyIngredient, returning or throwing, leaves every
\* object that existed before it as it was, so the MixState it was given
\* keeps its effects, ingredientsUsed, totalCost, currentValue, profit and
\* totalAddiction; the MixState it returns is a new object whose effects Set
\* and ingredientsUsed Array are new objects too, none of them the input's.
C19_InputNotModified ==
  [][ApplyIngredientStep =>
       /\ Len(heap') >= Len(heap)
       /\ \A ref \in 1..Len(heap) : heap'[ref] = heap[ref]
       /\ lastCall'.currentState = stateRef
       /\ MixStateAt(heap', stateRef) = MixStateAt(heap, stateRef)
       /\ IsError(lastCall'.outcome) => stateRef' = stateRef
       /\ ~IsError(lastCall'.outcome) =>
            /\ stateRef' = lastCall'.outcome.ref
            /\ stateRef' > Len(heap)
            /\ heap'[stateRef'].effects > Len(heap)
            /\ heap'[stateRef'].ingredientsUsed > Len(heap)
            /\ heap'[stateRef'].effects # heap'[stateRef].effects
            /\ heap'[stateRef'].ingredientsUsed # heap'[stateRef].ingredientsUsed]_vars

\* applyIngredient has returned a state in which a rule has replaced an
\* effect that the state it was given still holds.
C19_Witness ==
  /\ LastCallWas("applyIngredient")
  /\ ~IsError(lastCall.outcome)
  /\ lastCall.currentState # stateRef
  /\ \E k \in 1..Len(MixStateAt(heap, lastCall.currentState).effects) :
        \A j \in 1..Len(MixStateAt(heap, stateRef).effects) :
          MixStateAt(heap, stateRef).effects[j]
            # MixStateAt(heap, lastCall.currentState).effects[k]

\* The MixState the client holds: the value of the object at `state`.
ClientState == MixStateAt(heap, stateRef)

\* C20: the state createInitialState returns has totalCost 0 and no
\* ingredient used; each applyIngredient call that returns leaves a
\* totalCost not below the one before; the state the client then holds has
\* as ingredientsUsed exactly the ingredients applied, in order, as totalCost
\* the sum of their catalog costs, and is the state applySequence returns
\* for the base substance and these ingredients.
C20_CostIsSumOfApplied ==
  [][stateRef' # 0 =>
       /\ applied' = <<>> => /\ ClientState'.totalCost = 0
                             /\ ClientState'.ingredientsUsed = <<>>
       /\ stateRef # 0 => ClientState'.totalCost >= ClientState.totalCost
       /\ ClientState'.ingredientsUsed = applied'
       /\ ClientState'.totalCost = SequenceCost(applied', Len(applied'))
       /\ ClientState' = applySequence(ClientState'.baseSubstance, applied')]_vars

\* Two applyIngredient calls have returned and both ingredients cost
\* something: the total is above the first ingredient's cost.
C20_Witness ==
  /\ stateRef # 0
  /\ Len(applied) = 2
  /\ applied[1] # applied[2]
  /\ getIngredient(applied[1]).cost > 0
  /\ ClientState.totalCost > getIngredient(applied[1]).cost
  /\ ClientState.totalCost = getIngredient(applied[1]).cost + getIngredient(applied[2]).cost

(* ----------------------- numbers of a MixState ------------------------- *)

\* The sum of f[e] over the effects e of the set S.
RECURSIVE SumOver(_, _)
SumOver(S, f) ==
  IF S = {} THEN 0
  ELSE LET e == CHOOSE x \in S : TRUE IN f[e] + SumOver(S \ {e}, f)

\* The multipliers in hundredths and the addiction values in thousandths.
MultiplierOf == [name \in DOMAIN EFFECTS |-> EFFECTS[name].multiplier]

AddictionOf == [name \in DOMAIN EFFECTS |-> EFFECTS[name].addiction]

\* round(100 * sum of the addiction values), the sum taken exactly.
RoundedAddiction(effects) == (SumOver(Elems(effects), AddictionOf) + 5) \div 10

\* C21: the state a client holds after createInitialState or applyIngredient
\* has currentValue = basePrice * (1 + sum of the multipliers of its
\* effects), profit = currentValue - totalCost and totalAddiction =
\* min(100, round(100 * sum of the addiction values of its effects)), an
\* integer from 0 to 100.
C21_StateNumbers ==
  stateRef # 0 =>
    /\ ClientState.currentValue
         = getSubstance(ClientState.baseSubstance).basePrice
           * (100 + SumOver(Elems(ClientState.effects), MultiplierOf))
    /\ ClientState.profit = ClientState.currentValue - 100 * ClientState.totalCost
    /\ ClientState.totalAddiction \in 0..100
    /\ ClientState.totalAddiction = Min(100, RoundedAddiction(ClientState.effects))

(* ---------------------- properties of the bounds ----------------------- *)

\* The paths of the nodes every search of a call with options o visits: the
\* root, whose loop nothing cuts short, and the children the budget test
\* and applyIngredient let through.
VisitedPaths(o) ==
  {<<>>} \cup
  {<<i>> : i \in {j \in Elems(AllowedIngredients(o)) :
                    /\ o.maxSteps >= 1
                    /\ hasIngredient(j)
                    /\ ~(TruthyNumber(o.budgetLimit)
                         /\ getIngredientCost(j) > o.budgetLimit[1])}}

\* The sequences of n catalog ingredients of the allowed list of o.
Continuations(o, n) ==
  [1..n -> {j \in Elems(AllowedIngredients(o)) : hasIngredient(j)}]

\* C22: the bound is an over-estimate: for the state s of every node the
\* single-target search visits, with k steps remaining and allowed list A,
\* estimateMaxProfit(s, k, A) is at least the profit of every state that k
\* ingredients of A lead to from s.
C22_BoundIsOverEstimate ==
  (SingleCompleted /\ hasSubstance(options.baseSubstance)) =>
    \A path \in VisitedPaths(options) :
      \A rest \in Continuations(options, options.maxSteps - Len(path)) :
        estimateMaxProfit(applySequence(options.baseSubstance, path),
                          options.maxSteps - Len(path),
                          AllowedIngredients(options))
          >= calculateProfit(applySequence(options.baseSubstance, path \o rest))

(* ---------------------- properties of the cache ------------------------ *)

\* Optimizer.search without lines 73-80, 107 and 147-151: the same pruning,
\* base case and loop, but no cache is read or written.  searchNoCache
\* yields [self, result] as search does; o is the options record of the
\* call.
RECURSIVE searchNoCache(_, _, _, _, _)
RECURSIVE searchNoCacheLoop(_, _, _, _, _, _)

searchNoCacheIteration(loop, ingredient, currentState, stepsRemaining, o, currentSequence) ==
  IF \/ /\ TruthyNumber(o.budgetLimit)
        /\ currentState.totalCost + getIngredientCost(ingredient)
             > o.budgetLimit[1]
     \/ ~hasIngredient(ingredient)
  THEN loop
  ELSE searchNext(searchNoCache(loop.self,
                                applyIngredient(currentState, ingredient),
                                stepsRemaining - 1, o,
                                Append(currentSequence, ingredient)),
                  loop.bestResult)

searchNoCacheLoop(loop, k, currentState, stepsRemaining, o, currentSequence) ==
  IF k > Len(AllowedIngredients(o)) \/ IsError(loop)
  THEN loop
  ELSE searchNoCacheLoop(
         searchNoCacheIteration(loop, AllowedIngredients(o)[k], currentState,
                                stepsRemaining, o, currentSequence),
         k + 1, currentState, stepsRemaining, o, currentSequence)

searchNoCacheReturn(loop) ==
  IF loop.bestResult # Null
  THEN [self |-> updateGlobalBest(loop.self, loop.bestResult),
        result |-> loop.bestResult]
  ELSE [self |-> loop.self, result |-> Null]

searchNoCache(self, currentState, stepsRemaining, o, currentSequence) ==
  IF /\ self.globalBest # Null
     /\ estimateMaxProfit(currentState, stepsRemaining, AllowedIngredients(o))
          <= self.globalBest.profit
  THEN [self |-> self, result |-> Null]
  ELSE IF stepsRemaining = 0
  THEN IF /\ TruthyNumber(o.minAddictionLevel)
          /\ currentState.totalAddiction < o.minAddictionLevel[1]
       THEN [self |-> self, result |-> Null]
       ELSE [self |-> updateGlobalBest(self, createResult(currentState,
                                                         currentSequence)),
             result |-> createResult(currentState, currentSequence)]
  ELSE searchNoCacheReturn(
         searchNoCacheLoop([self |-> self, bestResult |-> Null], 1,
                           currentState, stepsRemaining, o, currentSequence))

\* What findOptimalMix(o) returns when search is searchNoCache, for a base
\* substance of the catalog.
ResultWithoutCache(o) ==
  IF o.maxSteps = 0
  THEN createResult(createInitialState(o.baseSubstance), <<>>)
  ELSE resultOrFallback(
         searchNoCache([cache |-> EmptyMap, globalBest |-> Null],
                       createInitialState(o.baseSubstance), o.maxSteps, o, <<>>),
         createInitialState(o.baseSubstance)).result

\* C23: the cache is only an optimization: the result findOptimalMix
\* returns has the profit of the result of the same search with the cache
\* disabled, every node recomputed.
C23_CacheOnlyOptimizes ==
  SingleReturned => result.profit = ResultWithoutCache(options).profit

\* The count highest-valued effects among those the set `effects` lacks.
HighestAbsentEffects(effects, count) ==
  Slice(SelectSeq(EffectsByMultiplier, LAMBDA e : ~SetHas(effects, e.name)), count)

\* C24: for stepsRemaining k >= 1 at a node the search visits, the
\* optimistic multiplier the bound adds is the sum of the multipliers of the
\* k highest-multiplier effects among those not yet present in the state.
C24_OptimisticMultiplier ==
  (SingleCompleted /\ hasSubstance(options.baseSubstance)) =>
    \A path \in VisitedPaths(options) :
      options.maxSteps - Len(path) >= 1 =>
        optimisticMultiplierOf(
            getHighestValueEffects(options.maxSteps - Len(path)),
            applySequence(options.baseSubstance, path).effects)
          = Sum([k \in 1..(options.maxSteps - Len(path)) |->
                   HighestAbsentEffects(
                     applySequence(options.baseSubstance, path).effects,
                     options.maxSteps - Len(path))[k].multiplier])

\* C25: the estimated minimum future cost of the bound is optimistic: at a
\* node the search visits, with k steps remaining and allowed list A, it is
\* at most the total cost of every sequence of k ingredients of A, repeats
\* allowed.
C25_MinFutureCostOptimistic ==
  (SingleCompleted /\ hasSubstance(options.baseSubstance)) =>
    \A path \in VisitedPaths(options) :
      \A rest \in Continuations(options, options.maxSteps - Len(path)) :
        minAdditionalCost(AllowedIngredients(options),
                          options.maxSteps - Len(path))
          <= SequenceCost(rest, Len(rest))

\* The optimistic value of one tracked substance: its base price times one
\* plus the current and the optimistic multiplier.
OptimisticValue(substanceName, state, stepsRemaining) ==
  getBasePrice(substanceName)
    * (100 + getCurrentMultiplier(state)
           + optimisticMultiplierOf(getHighestValueEffects(stepsRemaining),
                                    state.effects))

RECURSIVE SumOptimisticValue(_, _, _)
SumOptimisticValue(states, stepsRemaining, k) ==
  IF k = 0 THEN 0
  ELSE SumOptimisticValue(states, stepsRemaining, k - 1)
       + OptimisticValue(states[k].key, states[k].value, stepsRemaining)

\* The states of the node of the multi-target search that `path` leads to.
MultiNodeStates(o, path) ==
  NodeStates(createInitialStates(o.baseSubstances, Len(o.baseSubstances)).map,
             path, Len(path))

\* C26: the multi-target bound does not multiply cost across substances: at
\* a node the search visits, with N tracked substances, shared cumulative
\* cost c and stepsRemaining >= 1, estimateMaxCombinedProfit is the sum of
\* the N per-substance optimistic values minus c once minus the estimated
\* minimum future cost once.
C26_SharedCostOnceInBound ==
  MultiReturned =>
    \A path \in VisitedPaths(multiOptions) :
      multiOptions.maxSteps - Len(path) >= 1 =>
        estimateMaxCombinedProfit(MultiNodeStates(multiOptions, path),
                                  multiOptions.maxSteps - Len(path),
                                  AllowedIngredients(multiOptions))
          = SumOptimisticValue(MultiNodeStates(multiOptions, path),
                               multiOptions.maxSteps - Len(path),
                               Len(MultiNodeStates(multiOptions, path)))
            - 100 * SequenceCost(path, Len(path))
            - 100 * minAdditionalCost(AllowedIngredients(multiOptions),
                                      multiOptions.maxSteps - Len(path))

(* -------------------- properties of the global best -------------------- *)

\* Optimizer.search with a record of what it does to globalBest: `self`
\* carries two more fields, leaves (the profits of the leaf results the
\* base case has materialized) and log (the profit of globalBest after each
\* call of updateGlobalBest, in call order).  searchLogged yields
\* [self, result] as search does; o is the options record of the call.
RECURSIVE searchLogged(_, _, _, _, _)
RECURSIVE searchLoggedLoop(_, _, _, _, _, _)

Materialized(self, leaf) ==
  [self EXCEPT !.leaves = @ \cup {leaf.profit}]

Logged(self) ==
  [self EXCEPT !.log = Append(@, self.globalBest.profit)]

searchLoggedIteration(loop, ingredient, currentState, stepsRemaining, o, currentSequence) ==
  IF \/ /\ TruthyNumber(o.budgetLimit)
        /\ currentState.totalCost + getIngredientCost(ingredient)
             > o.budgetLimit[1]
     \/ ~hasIngredient(ingredient)
  THEN loop
  ELSE searchNext(searchLogged(loop.self,
                               applyIngredient(currentState, ingredient),
                               stepsRemaining - 1, o,
                               Append(currentSequence, ingredient)),
                  loop.bestResult)

searchLoggedLoop(loop, k, currentState, stepsRemaining, o, currentSequence) ==
  IF k > Len(AllowedIngredients(o)) \/ IsError(loop)
  THEN loop
  ELSE searchLoggedLoop(
         searchLoggedIteration(loop, AllowedIngredients(o)[k], currentState,
                               stepsRemaining, o, currentSequence),
         k + 1, currentState, stepsRemaining, o, currentSequence)

searchLoggedReturn(loop, stateKey, stepsUsed) ==
  IF loop.bestResult # Null
  THEN [self |-> Logged(updateGlobalBest(
                   cacheSet(loop.self, stateKey, loop.bestResult, stepsUsed),
                   loop.bestResult)),
        result |-> loop.bestResult]
  ELSE [self |-> loop.self, result |-> Null]

searchLoggedLeaf(self, stateKey, leaf, stepsUsed) ==
  [self |-> cacheSet(Logged(updateGlobalBest(Materialized(self, leaf), leaf)),
                     stateKey, leaf, stepsUsed),
   result |-> leaf]

searchLogged(self, currentState, stepsRemaining, o, currentSequence) ==
  IF /\ getStateKey(currentState.effects) \in DOMAIN self.cache
     /\ self.cache[getStateKey(currentState.effects)].stepsUsed
          <= Len(currentSequence)
  THEN [self |-> self,
        result |-> self.cache[getStateKey(currentState.effects)].result]
  ELSE IF /\ self.globalBest # Null
          /\ estimateMaxProfit(currentState, stepsRemaining,
                               AllowedIngredients(o))
               <= self.globalBest.profit
  THEN [self |-> self, result |-> Null]
  ELSE IF stepsRemaining = 0
  THEN IF /\ TruthyNumber(o.minAddictionLevel)
          /\ currentState.totalAddiction < o.minAddictionLevel[1]
       THEN [self |-> self, result |-> Null]
       ELSE searchLoggedLeaf(self, getStateKey(currentState.effects),
                             createResult(currentState, currentSequence),
                             Len(currentSequence))
  ELSE searchLoggedReturn(
         searchLoggedLoop([self |-> self, bestResult |-> Null], 1,
                          currentState, stepsRemaining, o, currentSequence),
         getStateKey(currentState.effects), Len(currentSequence))

\* What the search of findOptimalMix(o) leaves and returns, with its record,
\* for a base substance of the catalog and maxSteps >= 1.
LoggedCall(o) ==
  searchLogged([cache |-> EmptyMap, globalBest |-> Null, leaves |-> {},
                log |-> <<>>],
               createInitialState(o.baseSubstance), o.maxSteps, o, <<>>)

\* The call went through search.
SingleSearched == SingleReturned /\ options.maxSteps >= 1

\* t is the record of the call that has just returned.
IsRecordOfCall(t) ==
  /\ t.self.cache = cache
  /\ t.self.globalBest = globalBest
  /\ t.result # Null => t.result = result

NeverDecreases(log) ==
  \A i \in 1..(Len(log) - 1) : log[i] <= log[i + 1]

IsMaximumOf(x, S) == x \in S /\ \A y \in S : y <= x

GlobalBestHolds(t) ==
  /\ IsRecordOfCall(t)
  /\ NeverDecreases(t.self.log)
  /\ t.result # Null =>
        /\ globalBest # Null
        /\ result.profit = globalBest.profit
        /\ IsMaximumOf(result.profit, t.self.leaves)

\* C27: during one findOptimalMix call the profit of the global best never
\* decreases, and when the search returns a result, the result's profit is
\* that of the final global best, the maximum profit over the leaf results
\* materialized during the call.
C27_GlobalBestIsMaximum ==
  SingleSearched => GlobalBestHolds(LoggedCall(options))

RaisedTwice(t) ==
  /\ IsRecordOfCall(t)
  /\ t.result # Null
  /\ Cardinality(t.self.leaves) >= 3
  /\ \E i \in 1..(Len(t.self.log) - 1) : t.self.log[i] < t.self.log[i + 1]
  /\ \E i \in 1..(Len(t.self.log) - 1) : t.self.log[i] = t.self.log[i + 1]

\* A call whose search materialized at least three leaf profits, raised the
\* global best, and offered it a result that did not raise it.
C27_Witness ==
  SingleSearched /\ RaisedTwice(LoggedCall(options))

(* ------------------- properties of the iteration order ----------------- *)

\* The for-loop of the root node of Optimizer.search, replayed one
\* iteration at a time: [self, returned] after the first k entries of the
\* allowed list, returned[j] being what the recursive call for entry j
\* returned, Null where the entry was skipped.
RootIteration(p, r) ==
  [self |-> r.self, returned |-> Append(p.returned, r.result)]

RootStep(p, o, k) ==
  IF \/ /\ TruthyNumber(o.budgetLimit)
        /\ getIngredientCost(AllowedIngredients(o)[k]) > o.budgetLimit[1]
     \/ ~hasIngredient(AllowedIngredients(o)[k])
  THEN RootIteration(p, [self |-> p.self, result |-> Null])
  ELSE RootIteration(p,
         search(p.self,
                applyIngredient(createInitialState(o.baseSubstance),
                                AllowedIngredients(o)[k]),
                o.maxSteps - 1, AllowedIngredients(o), o.budgetLimit,
                o.minAddictionLevel, <<AllowedIngredients(o)[k]>>))

RECURSIVE RootFrom(_, _, _)
RootFrom(p, o, k) ==
  IF k > Len(AllowedIngredients(o)) \/ IsError(p)
  THEN p
  ELSE RootFrom(RootStep(p, o, k), o, k + 1)

RootLoop(o) ==
  RootFrom([self |-> [cache |-> EmptyMap, globalBest |-> Null],
            returned |-> <<>>], o, 1)

\* The same for the root node of MultiProductOptimizer.search.
MultiRootStep(p, o, k) ==
  IF \/ /\ TruthyNumber(o.budgetLimit)
        /\ getIngredientCost(AllowedIngredients(o)[k]) > o.budgetLimit[1]
     \/ ~hasIngredient(AllowedIngredients(o)[k])
  THEN RootIteration(p, [self |-> p.self, result |-> Null])
  ELSE RootIteration(p,
         MultiSearch(p.self,
                     MultiNodeStates(o, <<AllowedIngredients(o)[k]>>),
                     o.maxSteps - 1, AllowedIngredients(o), o.budgetLimit,
                     o.minAddictionLevel, <<AllowedIngredients(o)[k]>>))

RECURSIVE MultiRootFrom(_, _, _)
MultiRootFrom(p, o, k) ==
  IF k > Len(AllowedIngredients(o)) \/ IsError(p)
  THEN p
  ELSE MultiRootFrom(MultiRootStep(p, o, k), o, k + 1)

MultiRootLoop(o) ==
  MultiRootFrom([self |-> [cache |-> EmptyMap, globalBest |-> Null],
                 returned |-> <<>>], o, 1)

\* `kept` is what the call at position k of `returned` gave, no earlier
\* call gave as much and no later call gave more; profitOf[k] is the profit
\* of returned[k].
IsFirstBest(kept, k, returned, profitOf) ==
  /\ returned[k] = kept
  /\ \A j \in 1..(k - 1) : returned[j] = Null \/ profitOf[j] < profitOf[k]
  /\ \A j \in (k + 1)..Len(returned) :
        returned[j] = Null \/ profitOf[j] <= profitOf[k]

KeepsFirstBest(kept, list, returned, profitOf) ==
  IF \A k \in 1..Len(returned) : returned[k] = Null
  THEN kept.sequence = <<>>
  ELSE \E k \in 1..Len(returned) :
         /\ returned[k] # Null
         /\ IsFirstBest(kept, k, returned, profitOf)
         /\ kept.sequence[1] = list[k]

ProfitsOf(returned) ==
  [k \in 1..Len(returned) |->
     IF returned[k] = Null THEN 0 ELSE returned[k].profit]

TotalProfitsOf(returned) ==
  [k \in 1..Len(returned) |->
     IF returned[k] = Null THEN 0 ELSE returned[k].totalProfit]

SingleKeepsFirstBest(returned) ==
  KeepsFirstBest(result, AllowedIngredients(options), returned,
                 ProfitsOf(returned))

MultiKeepsFirstBest(returned) ==
  KeepsFirstBest(multiResult, AllowedIngredients(multiOptions), returned,
                 TotalProfitsOf(returned))

MultiSearched == MultiReturned /\ multiOptions.maxSteps >= 1

HasTie(kept, returned, profitOf) ==
  \E j, k \in 1..Len(returned) :
     /\ j < k
     /\ returned[j] = kept
     /\ returned[k] # Null
     /\ profitOf[k] = profitOf[j]

SingleHasTie(returned) == HasTie(result, returned, ProfitsOf(returned))

HasUnknownEntry(o) ==
  /\ o.availableIngredients # Absent
  /\ \E k \in 1..Len(AllowedIngredients(o)) :
        ~hasIngredient(AllowedIngredients(o)[k])

AllKnown(sequence) ==
  \A k \in 1..Len(sequence) : hasIngredient(sequence[k])

SingleWithUnknownEntry ==
  /\ SingleCompleted
  /\ hasSubstance(options.baseSubstance)
  /\ HasUnknownEntry(options)

MultiWithUnknownEntry ==
  /\ MultiCompleted
  /\ Len(multiOptions.baseSubstances) > 0
  /\ \A k \in 1..Len(multiOptions.baseSubstances) :
        hasSubstance(multiOptions.baseSubstances[k])
  /\ HasUnknownEntry(multiOptions)

\* C29: an entry of the allowed list that is not in the catalog is skipped
\* by either search: the call returns a result, not an error; the unknown
\* id is not in the returned sequence; and in multi-target mode every
\* tracked substance has had every step of the sequence applied.
C29_UnknownEntrySkipped ==
  /\ SingleWithUnknownEntry =>
        /\ ~IsError(result)
        /\ AllKnown(result.sequence)
        /\ result.mixState.ingredientsUsed = result.sequence
  /\ MultiWithUnknownEntry =>
        /\ ~IsError(multiResult)
        /\ AllKnown(multiResult.sequence)
        /\ \A b \in Elems(multiOptions.baseSubstances) :
              \E k \in 1..Len(multiResult.substanceResults) :
                 multiResult.substanceResults[k].substance = b
        /\ \A k \in 1..Len(multiResult.substanceResults) :
              multiResult.substanceResults[k].mixState.ingredientsUsed
                = multiResult.sequence

\* A two-step search over a list with an unknown entry has returned a
\* sequence of two known ingredients for two tracked substances.
C29_Witness ==
  /\ MultiWithUnknownEntry
  /\ ~IsError(multiResult)
  /\ Len(multiResult.substanceResults) = 2
  /\ Len(multiResult.sequence) = 2

(* ----------------------- properties of termination --------------------- *)

\* Every entry of the cache c was stored by a node at most maxSteps levels
\* below the root, and holds a result materialized where stepsRemaining had
\* reached 0, maxSteps levels below the root.
\* maxSteps and availableIngredients of the call in progress.
OptionsInProgress == IF pc = "single" THEN options ELSE multiOptions

\* While search runs, the frame i - 1 levels below the root has
\* stepsRemaining = maxSteps - (i - 1), which is never negative, and the
\* loop index of every frame is within the list or one past it.
SearchDepthBounded ==
  pc # "idle" =>
    /\ stack # <<>>
    /\ \A i \in 1..Len(stack) :
          /\ stack[i].stepsRemaining = OptionsInProgress.maxSteps - (i - 1)
          /\ stack[i].stepsRemaining >= 0
          /\ Len(stack[i].currentSequence) = i - 1
          /\ stack[i].k \in 0..(Len(AllowedIngredients(OptionsInProgress)) + 1)

\* A call followed step by step ends with what findOptimalMix yields.
SearchStepsAgree ==
  /\ (pc = "idle" /\ active = "single") =>
        [self |-> [cache |-> cache, globalBest |-> globalBest],
         result |-> result]
          = findOptimalMix([cache |-> EmptyMap, globalBest |-> Null], options)
  /\ (pc = "idle" /\ active = "multi") =>
        [self |-> [cache |-> multiCache, globalBest |-> multiGlobalBest],
         result |-> multiResult]
          = MultiFindOptimalMix([cache |-> EmptyMap, globalBest |-> Null],
                                multiOptions)

\* C30: findOptimalMix of either optimizer terminates with a result or an
\* error: a call in progress comes to its end, with the result or error
\* findOptimalMix yields.  stepsRemaining goes down by exactly 1 per
\* recursion level and is never below 0, so no frame of search is deeper
\* than maxSteps levels below the root.
C30_Terminates ==
  /\ [](SearchDepthBounded)
  /\ [](SearchStepsAgree)
  /\ (pc = "single") ~> (pc = "idle" /\ result # Null)
  /\ (pc = "multi") ~> (pc = "idle" /\ multiResult # Null)

\* A search of at least MaxSteps steps is maxSteps levels below its root,
\* in a call with stepsRemaining = 0.
C30_Witness ==
  /\ pc = "single"
  /\ options.maxSteps >= MaxSteps
  /\ Len(stack) = options.maxSteps + 1
  /\ Top.stepsRemaining = 0

====
